---- MODULE Spec2Model ----
(***************************************************************************)
(* Globe Tripper: the session state shared by the planning tools           *)
(* (src/src/tools/tools.py) and the pipeline drivers (src/run.py).         *)
(*                                                                         *)
(* Modelling conventions                                                   *)
(*  - Python None is the string "None"; `x or y` on optional strings is    *)
(*    the operator Or(x, y).                                               *)
(*  - An ISO date text is a tuple <<year, month, day>>; None is <<>>.      *)
(*    date.fromisoformat is FromIso (a proleptic day count, NoDt when the  *)
(*    text does not parse) and date.isoformat is IsoFormat.                *)
(*  - Traveler indexes are 0-based as in the source; TLA+ sequences are    *)
(*    1-based, so traveler i is travelers[i + 1].                          *)
(*  - f-strings are string concatenations.                                 *)
(*  - Tools write the session through tool_context.state. The drivers of   *)
(*    run.py also write into the object session_service.get_session hands  *)
(*    out (run.py:1271-1273, 1342-1343, 1820-1821, 2059-2060). The source   *)
(*    does not define the session service: whether that object is the       *)
(*    stored session ("live") or a copy of it ("copy") is fixed per run in  *)
(*    session_service, and a driver's write reaches the stored session only *)
(*    when it is live.                                                      *)
(*  - TripDetails.*_airport_code and Traveler.origin_airport_code are read *)
(*    by tools.py; the fields are taken from the data model of the         *)
(*    specification (section 3).                                           *)
(***************************************************************************)
EXTENDS Integers, Sequences, FiniteSets, TLC

VARIABLES
    planner,        \* PlannerState: trip_details, demographics, preferences, status
    visa,           \* state["visa"]
    flights,        \* state["flights"]
    accommodation,  \* state["accommodation"]
    activities,     \* state["activities"]
    call,           \* the tool invocation being served (name and arguments)
    ret,            \* the value the last tool invocation returned
    pc,             \* position of the pipeline driver
    loc,            \* local variables of the pipeline driver
    session_service \* what get_session hands out: the stored session or a copy

vars ==
    <<planner, visa, flights, accommodation, activities, call, ret, pc, loc,
      session_service>>

None == "None"

\* Python truthiness of an optional string.
Truthy(s) == s # None /\ s # ""

\* Python `a or b` on optional strings.
Or(a, b) == IF Truthy(a) THEN a ELSE b

Range(s) == {s[i] : i \in 1..Len(s)}

RECURSIVE SeqFilterIdx(_, _, _)
\* The ascending list of 0-based positions i < n with P[i + 1] true.
SeqFilterIdx(P, i, n) ==
    IF i >= n THEN <<>>
    ELSE (IF P[i + 1] THEN <<i>> ELSE <<>>) \o SeqFilterIdx(P, i + 1, n)

----------------------------------------------------------------------------
(* Calendar arithmetic of datetime.date.                                   *)

\* dep_dt = None: the text did not parse (date ordinals start at 1).
NoDt == 0
NoDate == <<>>

IsLeap(y) == (y % 4 = 0 /\ y % 100 # 0) \/ y % 400 = 0

DaysInMonth(y, m) ==
    IF m = 2 THEN (IF IsLeap(y) THEN 29 ELSE 28)
    ELSE IF m \in {4, 6, 9, 11} THEN 30 ELSE 31

DaysInYear(y) == IF IsLeap(y) THEN 366 ELSE 365

\* Days before January 1st of year y, counted from 0001-01-01.
DaysBeforeYear(y) ==
    (y - 1) * 365 + ((y - 1) \div 4) - ((y - 1) \div 100) + ((y - 1) \div 400)

RECURSIVE DaysBeforeMonth(_, _)
DaysBeforeMonth(y, m) == IF m <= 1 THEN 0 ELSE DaysBeforeMonth(y, m - 1) + DaysInMonth(y, m - 1)

\* date.fromisoformat(s).toordinal(): the ordinal of a well-formed date, NoDt
\* otherwise (the source catches the ValueError and continues with None).
FromIso(s) ==
    IF Len(s) # 3 THEN NoDt
    ELSE IF s[1] < 1 \/ s[1] > 9999 THEN NoDt
    ELSE IF s[2] < 1 \/ s[2] > 12 THEN NoDt
    ELSE IF s[3] < 1 \/ s[3] > DaysInMonth(s[1], s[2]) THEN NoDt
    ELSE DaysBeforeYear(s[1]) + DaysBeforeMonth(s[1], s[2]) + s[3]

RECURSIVE YearOf(_, _)
\* The year that holds ordinal n, searched upwards from year y.
YearOf(n, y) == IF n <= DaysBeforeYear(y + 1) THEN y ELSE YearOf(n, y + 1)

RECURSIVE MonthOf(_, _, _)
MonthOf(n, y, m) ==
    IF n <= DaysInMonth(y, m) THEN <<m, n>> ELSE MonthOf(n - DaysInMonth(y, m), y, m + 1)

\* date.fromordinal(n).isoformat()
IsoFormat(n) ==
    LET y == YearOf(n, (n \div 366) + 1)
        mo == MonthOf(n - DaysBeforeYear(y), y, 1)
    IN  <<y, mo[1], mo[2]>>

----------------------------------------------------------------------------
(* Session state after create_session(state=PlannerState().model_dump()).   *)

\* VisaState()
EmptyVisa ==
    [search_tasks |-> <<>>, search_results |-> <<>>, requirements |-> <<>>,
     earliest_safe_departure_date |-> NoDate]

\* FlightState()
EmptyFlights ==
    [search_tasks |-> <<>>, search_results |-> <<>>, traveler_flights |-> <<>>,
     overall_summary |-> None]

\* AccommodationState()
EmptyAccommodation ==
    [search_tasks |-> <<>>, search_results |-> <<>>, traveler_accommodations |-> <<>>,
     overall_summary |-> None]

\* ActivityState()
EmptyActivities ==
    [search_tasks |-> <<>>, search_results |-> <<>>, day_plan |-> <<>>,
     overall_summary |-> None]

Traveler(origin_airport_code, origin) ==
    [role |-> "adult", nationality |-> "Nigerian",
     origin_airport_code |-> origin_airport_code, origin |-> origin]

PlannerState(trip_details, travelers, budget_mode, status) ==
    [trip_details |-> trip_details,
     demographics |-> [travelers |-> travelers],
     preferences |-> [budget_mode |-> budget_mode],
     status |-> status]

TripDetails(destination, dest_code, origin, origin_code, start_date, end_date, flexible) ==
    [destination |-> destination, destination_airport_code |-> dest_code,
     origin |-> origin, origin_airport_code |-> origin_code,
     start_date |-> start_date, end_date |-> end_date, flexible_dates |-> flexible]

----------------------------------------------------------------------------
(* Bounds of the exploration.                                              *)

\* An agent stops calling a derive tool once the domain holds this many tasks.
MaxTasks == 2
\* An agent stops calling a record tool once the domain holds this many results.
MaxResults == 2

\* The invocation of a tool and the dict it returns, as far as the callers
\* and the properties read them.
Call(tool, task_id) == [tool |-> tool, task_id |-> task_id]
Ret(status, reason) == [status |-> status, reason |-> reason]

TaskIds(tasks) == {tasks[i].task_id : i \in 1..Len(tasks)}

----------------------------------------------------------------------------
(* derive_flight_search_tasks (tools.py:427-597).                           *)

NoReason == <<>>
MinTripDays == 3

\* A shift of the departure that never touches the return date.
VisaAwareDatesReturnKept(start_date, end_date, safe_date, flexible_dates) ==
    LET dep_dt == FromIso(start_date)
        safe_dep_dt == IF safe_date # NoDate THEN FromIso(safe_date) ELSE NoDt
    IN  IF ~(dep_dt # NoDt /\ safe_dep_dt # NoDt /\ safe_dep_dt > dep_dt)
        THEN [departure |-> start_date, return |-> end_date, reason |-> <<>>]
        ELSE [departure |-> IsoFormat(safe_dep_dt),
              reason |-> <<"Departure date adjusted to respect visa processing timelines",
                           IsoFormat(safe_dep_dt)>>,
              return |-> end_date]

\* A shift that keeps the trip length whether or not the dates are flexible.
VisaAwareDatesKeepLength(start_date, end_date, safe_date, flexible_dates) ==
    LET dep_dt == FromIso(start_date)
        safe_dep_dt == IF safe_date # NoDate THEN FromIso(safe_date) ELSE NoDt
        ret_dt == IF end_date # NoDate THEN FromIso(end_date) ELSE NoDt
    IN  IF ~(dep_dt # NoDt /\ safe_dep_dt # NoDt /\ safe_dep_dt > dep_dt)
        THEN [departure |-> start_date, return |-> end_date, reason |-> <<>>]
        ELSE [departure |-> IsoFormat(safe_dep_dt),
              reason |-> <<"Departure date adjusted to respect visa processing timelines",
                           IsoFormat(safe_dep_dt)>>,
              return |-> IF end_date = NoDate \/ ret_dt = NoDt THEN end_date
                         ELSE IsoFormat(safe_dep_dt + (ret_dt - dep_dt))]

\* The minimum of MinTripDays left out: a trip of no or negative length
\* keeps its length when it is moved past the original return date.
VisaAwareDatesNoMinimum(start_date, end_date, safe_date, flexible_dates) ==
    LET dep_dt == FromIso(start_date)
        safe_dep_dt == IF safe_date # NoDate THEN FromIso(safe_date) ELSE NoDt
        ret_dt == IF end_date # NoDate THEN FromIso(end_date) ELSE NoDt
    IN  IF ~(dep_dt # NoDt /\ safe_dep_dt # NoDt /\ safe_dep_dt > dep_dt)
        THEN [departure |-> start_date, return |-> end_date, reason |-> <<>>]
        ELSE [departure |-> IsoFormat(safe_dep_dt),
              reason |-> <<"Departure date adjusted to respect visa processing timelines",
                           IsoFormat(safe_dep_dt)>>,
              return |-> IF end_date = NoDate \/ ret_dt = NoDt THEN end_date
                         ELSE IF safe_dep_dt >= ret_dt
                         THEN IsoFormat(safe_dep_dt + (ret_dt - dep_dt))
                         ELSE IF flexible_dates
                         THEN IsoFormat(safe_dep_dt + (ret_dt - dep_dt))
                         ELSE end_date]

\* `safe_dep_dt >= dep_dt` in place of `safe_dep_dt > dep_dt`: a safe date
\* equal to the departure counts as a shift.
VisaAwareDatesOnOrAfter(start_date, end_date, safe_date, flexible_dates) ==
    LET dep_dt == FromIso(start_date)
        safe_dep_dt == IF safe_date # NoDate THEN FromIso(safe_date) ELSE NoDt
        ret_dt == IF end_date # NoDate THEN FromIso(end_date) ELSE NoDt
        delta0 == ret_dt - dep_dt
        delta == IF delta0 <= 0 THEN MinTripDays ELSE delta0
    IN  IF ~(dep_dt # NoDt /\ safe_dep_dt # NoDt /\ safe_dep_dt >= dep_dt)
        THEN [departure |-> start_date, return |-> end_date, reason |-> <<>>]
        ELSE [departure |-> IsoFormat(safe_dep_dt),
              reason |-> <<"Departure date adjusted to respect visa processing timelines",
                           IsoFormat(safe_dep_dt)>>,
              return |-> IF end_date = NoDate \/ ret_dt = NoDt THEN end_date
                         ELSE IF safe_dep_dt >= ret_dt THEN IsoFormat(safe_dep_dt + delta)
                         ELSE IF flexible_dates
                         THEN IsoFormat(safe_dep_dt + (ret_dt - dep_dt))
                         ELSE end_date]

\* flexible_dates ignored: the return date is kept whenever the safe date
\* lies inside the trip.
VisaAwareDatesFixed(start_date, end_date, safe_date, flexible_dates) ==
    LET dep_dt == FromIso(start_date)
        safe_dep_dt == IF safe_date # NoDate THEN FromIso(safe_date) ELSE NoDt
        ret_dt == IF end_date # NoDate THEN FromIso(end_date) ELSE NoDt
        delta0 == ret_dt - dep_dt
        delta == IF delta0 <= 0 THEN MinTripDays ELSE delta0
    IN  IF ~(dep_dt # NoDt /\ safe_dep_dt # NoDt /\ safe_dep_dt > dep_dt)
        THEN [departure |-> start_date, return |-> end_date, reason |-> <<>>]
        ELSE [departure |-> IsoFormat(safe_dep_dt),
              reason |-> <<"Departure date adjusted to respect visa processing timelines",
                           IsoFormat(safe_dep_dt)>>,
              return |-> IF end_date = NoDate \/ ret_dt = NoDt THEN end_date
                         ELSE IF safe_dep_dt >= ret_dt THEN IsoFormat(safe_dep_dt + delta)
                         ELSE end_date]

\* The visa-aware date shift of tools.py:467-519, on ISO date texts.
VisaAwareDates(start_date, end_date, safe_date, flexible_dates) ==
    LET dep_dt == FromIso(start_date)
        safe_dep_dt == IF safe_date # NoDate THEN FromIso(safe_date) ELSE NoDt
        ret_dt == IF end_date # NoDate THEN FromIso(end_date) ELSE NoDt
        shifted == dep_dt # NoDt /\ safe_dep_dt # NoDt /\ safe_dep_dt > dep_dt
        delta0 == ret_dt - dep_dt
        delta == IF delta0 <= 0 THEN MinTripDays ELSE delta0
    IN  IF ~shifted
        THEN [departure |-> start_date, return |-> end_date, reason |-> NoReason]
        ELSE [departure |-> IsoFormat(safe_dep_dt),
              reason |-> <<"Departure date adjusted to respect visa processing timelines",
                           IsoFormat(safe_dep_dt)>>,
              return |->
                 IF end_date = NoDate \/ ret_dt = NoDt THEN end_date
                 ELSE IF safe_dep_dt >= ret_dt THEN IsoFormat(safe_dep_dt + delta)
                 ELSE IF flexible_dates THEN IsoFormat(safe_dep_dt + (ret_dt - dep_dt))
                 ELSE end_date]

\* origin_city of one traveler (tools.py:450-453, 524).
OriginCity(p, traveler) ==
    LET origin_default == Or(p.trip_details.origin_airport_code, p.trip_details.origin)
    IN  Or(traveler.origin_airport_code, Or(traveler.origin, origin_default))

\* Keys of `groups` in insertion order: the origin of each traveler that is
\* the first one with that origin (tools.py:522-526).
GroupKeys(p) ==
    LET travelers == p.demographics.travelers
        first == [i \in 1..Len(travelers) |->
                    \A j \in 1..(i - 1) :
                        OriginCity(p, travelers[j]) # OriginCity(p, travelers[i])]
        idx == SeqFilterIdx(first, 0, Len(travelers))
    IN  [k \in 1..Len(idx) |-> OriginCity(p, travelers[idx[k] + 1])]

\* groups[key] = [idx] in place of groups.setdefault(key, []).append(idx):
\* only the last traveler of a group is kept.
GroupIndexesLastOnly(p, key) ==
    LET travelers == p.demographics.travelers
        member == [i \in 1..Len(travelers) |->
                      /\ OriginCity(p, travelers[i]) = key
                      /\ \A j \in (i + 1)..Len(travelers) :
                            OriginCity(p, travelers[j]) # key]
    IN  SeqFilterIdx(member, 0, Len(travelers))

\* groups[key]: the ascending traveler indexes that share the key.
GroupIndexes(p, key) ==
    LET travelers == p.demographics.travelers
        member == [i \in 1..Len(travelers) |-> OriginCity(p, travelers[i]) = key]
    IN  SeqFilterIdx(member, 0, Len(travelers))

\* The id without its running position.
FlightTaskIdNoPosition(origin_city, dest_city, n) ==
    "flight_" \o Or(origin_city, "unknown") \o "_" \o dest_city

\* tools.py:530: the id ends with len(flight_state.search_tasks) + len(tasks),
\* the position the task takes in search_tasks.
FlightTaskId(origin_city, dest_city, n) ==
    "flight_" \o Or(origin_city, "unknown") \o "_" \o dest_city \o "_" \o ToString(n)

\* The list `tasks` built by tools.py:528-577.
NewFlightTasks(p, v, f) ==
    LET td == p.trip_details
        keys == GroupKeys(p)
        dates == VisaAwareDates(td.start_date, td.end_date,
                                v.earliest_safe_departure_date, td.flexible_dates)
    IN  [k \in 1..Len(keys) |->
            [task_id |-> FlightTaskId(keys[k], td.destination_airport_code,
                                      Len(f.search_tasks) + (k - 1)),
             traveler_indexes |-> GroupIndexes(p, keys[k]),
             origin_city |-> keys[k],
             destination_city |-> td.destination_airport_code,
             original_departure_date |-> td.start_date,
             original_return_date |-> td.end_date,
             recommended_departure_date |-> dates.departure,
             recommended_return_date |-> dates.return,
             visa_timeline_reason |-> dates.reason,
             cabin_preference |->
                 IF p.preferences.budget_mode = "luxury" THEN "business" ELSE "economy"]]

\* The derivation without the test for travelers and start date.
derive_flight_search_tasks_unguarded ==
    /\ call' = Call("derive_flight_search_tasks", None)
    /\ IF ~Truthy(planner.trip_details.destination_airport_code)
       THEN /\ ret' = Ret("skipped", "missing_destination_airport_code")
            /\ UNCHANGED flights
       ELSE LET tasks == NewFlightTasks(planner, visa, flights)
            IN  /\ Len(flights.search_tasks) < MaxTasks
                /\ flights' = [flights EXCEPT !.search_tasks = @ \o tasks]
                /\ ret' = Ret("success", None)
    /\ UNCHANGED <<planner, visa, accommodation, activities, pc, loc, session_service>>

derive_flight_search_tasks ==
    /\ call' = Call("derive_flight_search_tasks", None)
    /\ IF ~Truthy(planner.trip_details.destination_airport_code)
       THEN /\ ret' = Ret("skipped", "missing_destination_airport_code")
            /\ UNCHANGED flights
       ELSE IF planner.demographics.travelers = <<>>
               \/ planner.trip_details.start_date = NoDate
       THEN /\ ret' = Ret("skipped", "missing_destination_travelers_or_start_date")
            /\ UNCHANGED flights
       ELSE LET tasks == NewFlightTasks(planner, visa, flights)
            IN  /\ Len(flights.search_tasks) < MaxTasks
                /\ flights' = [flights EXCEPT !.search_tasks = @ \o tasks]
                /\ ret' = Ret("success", None)
    /\ UNCHANGED <<planner, visa, accommodation, activities, pc, loc, session_service>>

----------------------------------------------------------------------------
(* derive_visa_search_tasks, derive_accommodation_search_tasks and          *)
(* derive_activity_search_tasks.                                            *)

\* Keys of the visa `groups` in insertion order (tools.py:388-391): the
\* destination is common, so the key is the traveler's nationality.
VisaGroupKeys(p) ==
    LET travelers == p.demographics.travelers
        first == [i \in 1..Len(travelers) |->
                    \A j \in 1..(i - 1) : travelers[j].nationality # travelers[i].nationality]
        idx == SeqFilterIdx(first, 0, Len(travelers))
    IN  [k \in 1..Len(idx) |-> travelers[idx[k] + 1].nationality]

VisaGroupIndexes(p, nationality) ==
    LET travelers == p.demographics.travelers
        member == [i \in 1..Len(travelers) |-> travelers[i].nationality = nationality]
    IN  SeqFilterIdx(member, 0, Len(travelers))

derive_visa_search_tasks ==
    /\ call' = Call("derive_visa_search_tasks", None)
    /\ IF ~Truthy(planner.trip_details.destination) \/ planner.demographics.travelers = <<>>
       THEN /\ ret' = Ret("skipped", "missing_destination_or_travelers")
            /\ UNCHANGED visa
       ELSE LET keys == VisaGroupKeys(planner)
                dest == planner.trip_details.destination
                tasks == [k \in 1..Len(keys) |->
                            [task_id |-> Or(keys[k], "unknown") \o "_" \o dest \o "_"
                                           \o ToString(Len(visa.search_tasks) + (k - 1)),
                             traveler_indexes |-> VisaGroupIndexes(planner, keys[k]),
                             destination_country |-> dest,
                             nationality |-> keys[k]]]
            IN  /\ Len(visa.search_tasks) < MaxTasks
                /\ visa' = [visa EXCEPT !.search_tasks = @ \o tasks]
                /\ ret' = Ret("success", None)
    /\ UNCHANGED <<planner, flights, accommodation, activities, pc, loc, session_service>>

\* list(range(len(travelers)))
AllTravelerIndexes(p) == [i \in 1..Len(p.demographics.travelers) |-> i - 1]

\* Lexicographic order of ISO date texts (Python str comparison).
DateLess(a, b) ==
    \/ a[1] < b[1]
    \/ a[1] = b[1] /\ a[2] < b[2]
    \/ a[1] = b[1] /\ a[2] = b[2] /\ a[3] < b[3]

MinDate(S) == CHOOSE d \in S : \A e \in S : ~DateLess(e, d)
MaxDate(S) == CHOOSE d \in S : \A e \in S : ~DateLess(d, e)

\* The option a traveler's choice contributes to the stay window
\* (tools.py:1042-1047): chosen_option, else the first other option.
WindowOption(choice) ==
    IF choice.chosen_option # <<>> THEN choice.chosen_option
    ELSE IF choice.other_options # <<>> THEN <<choice.other_options[1]>>
    ELSE <<>>

\* option.return_departure or option.return_arrival
ReturnLeg(option) ==
    IF option.return_departure # NoDate THEN option.return_departure
    ELSE option.return_arrival

\* arrival_dates and departure_dates of tools.py:1038-1055 / 2220-2235.
ArrivalDates(p, f) ==
    {WindowOption(f.traveler_flights[i])[1].outbound_arrival :
        i \in {j \in 1..Len(f.traveler_flights) :
                 /\ f.traveler_flights[j].traveler_index < Len(p.demographics.travelers)
                 /\ WindowOption(f.traveler_flights[j]) # <<>>
                 /\ WindowOption(f.traveler_flights[j])[1].outbound_arrival # NoDate}}

DepartureDates(p, f) ==
    {ReturnLeg(WindowOption(f.traveler_flights[i])[1]) :
        i \in {j \in 1..Len(f.traveler_flights) :
                 /\ f.traveler_flights[j].traveler_index < Len(p.demographics.travelers)
                 /\ WindowOption(f.traveler_flights[j]) # <<>>
                 /\ ReturnLeg(WindowOption(f.traveler_flights[j])[1]) # NoDate}}

\* The stay window: planner dates tightened by the flight choices, with the
\* guard against an inverted window (tools.py:1025-1072 / 2213-2252).
StayWindow(p, f) ==
    LET td == p.trip_details
        arr == ArrivalDates(p, f)
        dep == DepartureDates(p, f)
        check_in == IF arr # {} THEN MinDate(arr) ELSE td.start_date
        check_out == IF dep # {} THEN MaxDate(dep) ELSE td.end_date
    IN  IF check_in # NoDate /\ check_out # NoDate /\ DateLess(check_out, check_in)
        THEN IF td.start_date # NoDate /\ td.end_date # NoDate
                /\ ~DateLess(td.end_date, td.start_date)
             THEN [start |-> td.start_date, end |-> td.end_date]
             ELSE [start |-> check_in, end |-> check_in]
        ELSE [start |-> check_in, end |-> check_out]

LondonAirports == {"LHR", "LGW", "LCY", "STN", "LTN", "SEN"}

\* accommodation_location of tools.py:1032, 1076-1089.
AccommodationLocation(p, f) ==
    LET destination == p.trip_details.destination
    IN  IF (~Truthy(destination) \/ destination \in {"UK", "UNITED KINGDOM"})
           /\ f.search_tasks # <<>>
           /\ f.search_tasks[1].destination_city \in LondonAirports
        THEN "London, UK"
        ELSE destination

derive_accommodation_search_tasks ==
    /\ call' = Call("derive_accommodation_search_tasks", None)
    /\ IF planner.demographics.travelers = <<>>
       THEN /\ ret' = Ret("skipped", "missing_destination_or_travelers")
            /\ UNCHANGED accommodation
       ELSE LET window == StayWindow(planner, flights)
                task == [task_id |-> "accommodation_"
                                       \o ToString(Len(accommodation.search_tasks)),
                         traveler_indexes |-> AllTravelerIndexes(planner),
                         location |-> AccommodationLocation(planner, flights),
                         check_in_date |-> window.start,
                         check_out_date |-> window.end]
            IN  /\ Len(accommodation.search_tasks) < MaxTasks
                /\ accommodation' = [accommodation EXCEPT !.search_tasks = Append(@, task)]
                /\ ret' = Ret("success", None)
    /\ UNCHANGED <<planner, visa, flights, activities, pc, loc, session_service>>

derive_activity_search_tasks ==
    /\ call' = Call("derive_activity_search_tasks", None)
    /\ IF \/ ~Truthy(planner.trip_details.destination)
          \/ planner.trip_details.start_date = NoDate
          \/ planner.trip_details.end_date = NoDate
          \/ planner.demographics.travelers = <<>>
       THEN /\ ret' = Ret("skipped", "missing_destination_dates_or_travelers")
            /\ UNCHANGED activities
       ELSE LET window == StayWindow(planner, flights)
                task_id == "activities_" \o ToString(Len(activities.search_tasks))
                task == [task_id |-> task_id,
                         traveler_indexes |-> AllTravelerIndexes(planner),
                         location |-> planner.trip_details.destination,
                         date_start |-> window.start,
                         date_end |-> window.end]
            IN  /\ Len(activities.search_tasks) < MaxTasks
                /\ activities' = [activities EXCEPT !.search_tasks = Append(@, task)]
                /\ ret' = Ret("success", None)
    /\ UNCHANGED <<planner, visa, flights, accommodation, pc, loc, session_service>>

----------------------------------------------------------------------------
(* The record_*_search_result tools.                                        *)

FlightOptionTypes == {"cheapest", "fastest", "balanced"}
AccommodationOptionTypes ==
    {"cheapest", "best_location", "family_friendly", "balanced", "luxury"}

\* A FlightOption (or the dict an agent passes for one).
FlightOption(option_type, price) ==
    [option_type |-> option_type, total_price_low |-> price,
     outbound_arrival |-> NoDate, return_departure |-> NoDate, return_arrival |-> NoDate]

\* An AccommodationOption (or the dict an agent passes for one).
AccommodationOption(option_type, price) ==
    [option_type |-> option_type, total_price_low |-> price]

\* option_models of tools.py:949-957: the dicts FlightOption(**opt) accepts,
\* in order; a dict that fails validation is dropped.
ParseFlightOptions(options) ==
    SelectSeq(options, LAMBDA opt : opt.option_type \in FlightOptionTypes)

\* option_models of tools.py:1341-1349.
ParseAccommodationOptions(options) ==
    SelectSeq(options, LAMBDA opt : opt.option_type \in AccommodationOptionTypes)

\* A lookup that only asks whether the domain holds any task at all.
HasAnyTask(tasks, task_id) == tasks # <<>>

\* next((t for t in search_tasks if t.task_id == task_id), None) is not None
HasTask(tasks, task_id) == \E i \in 1..Len(tasks) : tasks[i].task_id = task_id

\* A task_id no derive tool produces for the trips explored.
UnknownTaskId == "flight_LOS_LHR_9"

\* task_id arguments an agent passes to a record tool: a task of the domain,
\* a task of another domain, or an id that names no task.
VisaTaskIdInputs == TaskIds(visa.search_tasks) \cup {"activities_0"}
FlightTaskIdInputs == TaskIds(flights.search_tasks) \cup {"accommodation_0"}
AccommodationTaskIdInputs == TaskIds(accommodation.search_tasks) \cup {UnknownTaskId}
ActivityTaskIdInputs == TaskIds(activities.search_tasks) \cup {"accommodation_0"}

Payload(summary, options, chosen_option_type) ==
    [summary |-> summary, options |-> options, chosen_option_type |-> chosen_option_type]

\* What a flight summarization agent passes to record_flight_search_result.
\* The tools called freely get the payloads that exercise the option
\* partition; inside the pipeline drivers the agent passes one payload.
FlightPayloadInputs ==
    IF pc = "tools_flights" \/ pc = "tools_accommodation"
    THEN { Payload("Options found",
                   <<FlightOption("cheapest", 400), FlightOption("balanced", 500),
                     FlightOption("balanced", 650)>>, "balanced"),
           Payload(" ",
                   <<FlightOption("premium", 900), FlightOption("fastest", 700),
                     FlightOption("cheapest", 400)>>, None),
           Payload("Few seats left",
                   <<FlightOption("fastest", 700), FlightOption("cheapest", 400)>>,
                   "balanced"),
           Payload(None, <<>>, "fastest") }
    ELSE { Payload("Options found", <<FlightOption("balanced", 500)>>, "balanced") }

\* What an accommodation summarization agent passes to
\* record_accommodation_search_result.
AccommodationPayloadInputs ==
    IF pc = "tools_flights" \/ pc = "tools_accommodation"
    THEN { Payload("Options found",
                   <<AccommodationOption("luxury", 900), AccommodationOption("balanced", 450),
                     AccommodationOption("balanced", 480)>>, "balanced"),
           Payload(None,
                   <<AccommodationOption("hostel", 100),
                     AccommodationOption("family_friendly", 500),
                     AccommodationOption("cheapest", 300)>>, "luxury"),
           Payload(" ",
                   <<AccommodationOption("best_location", 600),
                     AccommodationOption("cheapest", 300)>>, None),
           Payload("Nothing found", <<>>, "fastest") }
    ELSE { Payload("Options found", <<AccommodationOption("cheapest", 300)>>, "cheapest"),
           Payload("Options found", <<>>, None) }

RecordVisa(task_id, summary, processing_time_hint, notes) ==
    /\ call' = Call("record_visa_search_result", task_id)
    /\ IF ~HasTask(visa.search_tasks, task_id)
       THEN /\ ret' = Ret("error", "unknown_task_id")
            /\ UNCHANGED visa
       ELSE LET result == [task_id |-> task_id, summary |-> summary, notes |-> notes,
                           processing_time_hint |-> processing_time_hint]
            IN  /\ Len(visa.search_results) < MaxResults
                /\ visa' = [visa EXCEPT !.search_results = Append(@, result)]
                /\ ret' = Ret("success", None)
    /\ UNCHANGED <<planner, flights, accommodation, activities, pc, loc, session_service>>

record_visa_search_result ==
    \E task_id \in VisaTaskIdInputs : RecordVisa(task_id, "Visa required", None, None)

RecordFlight(task_id, summary, options, chosen_option_type) ==
    /\ call' = Call("record_flight_search_result", task_id)
    /\ IF ~HasTask(flights.search_tasks, task_id)
       THEN /\ ret' = Ret("error", "unknown_task_id")
            /\ UNCHANGED flights
       ELSE IF chosen_option_type \notin FlightOptionTypes \cup {None}
       THEN \* FlightSearchResult(...) rejects the literal: the tool raises.
            /\ ret' = Ret("raised", "ValidationError")
            /\ UNCHANGED flights
       ELSE LET result == [task_id |-> task_id,
                           options |-> ParseFlightOptions(options),
                           summary |-> summary,
                           best_time_hint |-> None,
                           recommended_option_label |-> None,
                           notes |-> None,
                           chosen_option_type |-> chosen_option_type]
            IN  /\ Len(flights.search_results) < MaxResults
                /\ flights' = [flights EXCEPT !.search_results = Append(@, result)]
                /\ ret' = Ret("success", None)
    /\ UNCHANGED <<planner, visa, accommodation, activities, pc, loc, session_service>>

record_flight_search_result ==
    \E task_id \in FlightTaskIdInputs, payload \in FlightPayloadInputs :
        RecordFlight(task_id, payload.summary, payload.options,
                     payload.chosen_option_type)

RecordAccommodation(task_id, summary, options, chosen_option_type) ==
    /\ call' = Call("record_accommodation_search_result", task_id)
    /\ IF ~HasTask(accommodation.search_tasks, task_id)
       THEN /\ ret' = Ret("error", "unknown_task_id")
            /\ UNCHANGED accommodation
       ELSE IF chosen_option_type \notin AccommodationOptionTypes \cup {None}
       THEN /\ ret' = Ret("raised", "ValidationError")
            /\ UNCHANGED accommodation
       ELSE LET result == [task_id |-> task_id,
                           options |-> ParseAccommodationOptions(options),
                           summary |-> summary,
                           best_price_hint |-> None,
                           best_location_hint |-> None,
                           recommended_option_label |-> None,
                           chosen_option_type |-> chosen_option_type,
                           selection_reason |-> None]
            IN  /\ Len(accommodation.search_results) < MaxResults
                /\ accommodation' =
                      [accommodation EXCEPT !.search_results = Append(@, result)]
                /\ ret' = Ret("success", None)
    /\ UNCHANGED <<planner, visa, flights, activities, pc, loc, session_service>>

record_accommodation_search_result ==
    \E task_id \in AccommodationTaskIdInputs, payload \in AccommodationPayloadInputs :
        RecordAccommodation(task_id, payload.summary, payload.options,
                            payload.chosen_option_type)

RecordActivity(task_id, summary) ==
    /\ call' = Call("record_activity_search_result", task_id)
    /\ IF ~HasTask(activities.search_tasks, task_id)
       THEN /\ ret' = Ret("error", "unknown_task_id")
            /\ UNCHANGED activities
       ELSE LET result == [task_id |-> task_id, options |-> <<>>, summary |-> summary]
            IN  /\ Len(activities.search_results) < MaxResults
                /\ activities' = [activities EXCEPT !.search_results = Append(@, result)]
                /\ ret' = Ret("success", None)
    /\ UNCHANGED <<planner, visa, flights, accommodation, pc, loc, session_service>>

record_activity_search_result ==
    \E task_id \in ActivityTaskIdInputs : RecordActivity(task_id, "Things to do")

----------------------------------------------------------------------------
(* apply_flight_search_results and apply_accommodation_search_results.      *)

\* str.strip() on the texts of the model.
Strip(s) == IF s = " " THEN "" ELSE s

RECURSIVE Join(_, _)
\* sep.join(parts)
Join(parts, sep) ==
    IF parts = <<>> THEN ""
    ELSE IF Len(parts) = 1 THEN parts[1]
    ELSE parts[1] \o sep \o Join(Tail(parts), sep)

RECURSIVE Flatten(_)
Flatten(seqs) == IF seqs = <<>> THEN <<>> ELSE seqs[1] \o Flatten(Tail(seqs))

\* The summary line of one FlightSearchResult, [] when it is empty
\* (tools.py:1219-1228).
FlightSummaryLine(result) ==
    LET parts == (IF Truthy(result.summary) THEN <<Strip(result.summary)>> ELSE <<>>)
              \o (IF Truthy(result.best_time_hint)
                  THEN <<"Time hint: " \o result.best_time_hint>> ELSE <<>>)
              \o (IF Truthy(result.recommended_option_label)
                  THEN <<"Recommended: " \o result.recommended_option_label>> ELSE <<>>)
        line == Join(parts, " ")
    IN  IF line # "" THEN <<"- Task " \o result.task_id \o ": " \o line>> ELSE <<>>

\* The summary line of one AccommodationSearchResult (tools.py:1405-1417).
AccommodationSummaryLine(result) ==
    LET parts == (IF Truthy(result.summary) THEN <<Strip(result.summary)>> ELSE <<>>)
              \o (IF Truthy(result.best_price_hint)
                  THEN <<"Price hint: " \o result.best_price_hint>> ELSE <<>>)
              \o (IF Truthy(result.best_location_hint)
                  THEN <<"Location hint: " \o result.best_location_hint>> ELSE <<>>)
              \o (IF Truthy(result.recommended_option_label)
                  THEN <<"Recommended: " \o result.recommended_option_label>> ELSE <<>>)
        line == Join(parts, " ")
    IN  IF line # "" THEN <<"- Task " \o result.task_id \o ": " \o line>> ELSE <<>>

\* results_by_task = {r.task_id: r for r in search_results}: a later result
\* replaces an earlier one under the same key.
HasResult(results, task_id) == \E i \in 1..Len(results) : results[i].task_id = task_id

\* A dict that keeps the first result stored under a key.
ResultsByTaskFirst(results, task_id) ==
    results[CHOOSE i \in 1..Len(results) :
               /\ results[i].task_id = task_id
               /\ \A j \in 1..(i - 1) : results[j].task_id # task_id]

ResultsByTask(results, task_id) ==
    results[CHOOSE i \in 1..Len(results) :
               /\ results[i].task_id = task_id
               /\ \A j \in (i + 1)..Len(results) : results[j].task_id # task_id]

RECURSIVE ChooseLoopLastMatch(_, _, _, _, _)
\* The loop without its `chosen_option is None` test: a later match replaces
\* the option chosen before.
ChooseLoopLastMatch(options, i, chosen_type, chosen_option, other_options) ==
    IF i > Len(options)
    THEN [chosen_option |-> chosen_option, other_options |-> other_options]
    ELSE IF Truthy(chosen_type) /\ options[i].option_type = chosen_type
    THEN ChooseLoopLastMatch(options, i + 1, chosen_type, <<options[i]>>, other_options)
    ELSE ChooseLoopLastMatch(options, i + 1, chosen_type, chosen_option,
                             Append(other_options, options[i]))

RECURSIVE ChooseLoop(_, _, _, _, _)
\* The loop `for opt in result.options` of tools.py:1255-1259 / 1442-1446,
\* from option i on, with the chosen_option and other_options built so far.
ChooseLoop(options, i, chosen_type, chosen_option, other_options) ==
    IF i > Len(options)
    THEN [chosen_option |-> chosen_option, other_options |-> other_options]
    ELSE IF Truthy(chosen_type) /\ options[i].option_type = chosen_type
            /\ chosen_option = <<>>
    THEN ChooseLoop(options, i + 1, chosen_type, <<options[i]>>, other_options)
    ELSE ChooseLoop(options, i + 1, chosen_type, chosen_option,
                    Append(other_options, options[i]))

\* chosen_option / other_options of a flight result (tools.py:1251-1263).
\* An Optional[FlightOption] is a sequence of at most one option.
ChooseFlightOption(result) ==
    LET looped == ChooseLoop(result.options, 1, result.chosen_option_type, <<>>, <<>>)
    IN  IF looped.chosen_option = <<>> /\ result.options # <<>>
        THEN [chosen_option |-> <<result.options[1]>>,
              other_options |-> Tail(result.options)]
        ELSE looped

\* chosen_option / other_options of an accommodation result (tools.py:1438-1450).
ChooseAccommodationOption(result) ==
    LET looped == ChooseLoop(result.options, 1, result.chosen_option_type, <<>>, <<>>)
    IN  IF looped.chosen_option = <<>> /\ result.options # <<>>
        THEN [chosen_option |-> <<result.options[1]>>,
              other_options |-> Tail(result.options)]
        ELSE looped

\* The join without the `traveler_index not in task.traveler_indexes` test.
JoinedTasksAnyTraveler(traveler_index, tasks, results) ==
    SelectSeq(tasks, LAMBDA task : HasResult(results, task.task_id))

\* The tasks that contribute a choice for one traveler, in task order
\* (tools.py:1243-1249).
JoinedTasks(traveler_index, tasks, results) ==
    SelectSeq(tasks, LAMBDA task :
        /\ traveler_index \in Range(task.traveler_indexes)
        /\ HasResult(results, task.task_id))

\* traveler_flights as rebuilt by tools.py:1235-1280.
TravelerFlights(p, f) ==
    LET n == Len(p.demographics.travelers)
        perTraveler == [i \in 1..n |->
            LET joined == JoinedTasks(i - 1, f.search_tasks, f.search_results)
            IN  [k \in 1..Len(joined) |->
                    LET result == ResultsByTask(f.search_results, joined[k].task_id)
                        pick == ChooseFlightOption(result)
                    IN  [traveler_index |-> i - 1,
                         task_id |-> joined[k].task_id,
                         summary |-> result.summary,
                         chosen_option_type |-> result.chosen_option_type,
                         chosen_option |-> pick.chosen_option,
                         other_options |-> pick.other_options]]]
    IN  Flatten(perTraveler)

\* traveler_accommodations as rebuilt by tools.py:1422-1468.
TravelerAccommodations(p, a) ==
    LET n == Len(p.demographics.travelers)
        perTraveler == [i \in 1..n |->
            LET joined == JoinedTasks(i - 1, a.search_tasks, a.search_results)
            IN  [k \in 1..Len(joined) |->
                    LET result == ResultsByTask(a.search_results, joined[k].task_id)
                        pick == ChooseAccommodationOption(result)
                    IN  [traveler_index |-> i - 1,
                         task_id |-> joined[k].task_id,
                         summary |-> result.summary,
                         chosen_option_type |-> result.chosen_option_type,
                         chosen_option |-> pick.chosen_option,
                         other_options |-> pick.other_options]]]
    IN  Flatten(perTraveler)

\* An apply that merges the new choices into the list already stored.
AppliedFlightsMerged(p, f) ==
    [f EXCEPT !.traveler_flights = @ \o TravelerFlights(p, f)]

\* FlightState after the body of apply_flight_search_results (tools.py:1217-1282).
AppliedFlights(p, f) ==
    LET lines == Flatten([i \in 1..Len(f.search_results) |->
                             FlightSummaryLine(f.search_results[i])])
    IN  [f EXCEPT !.overall_summary = IF lines # <<>> THEN Join(lines, "\n") ELSE @,
                  !.traveler_flights = TravelerFlights(p, f)]

apply_flight_search_results ==
    /\ call' = Call("apply_flight_search_results", None)
    /\ IF flights.search_results = <<>>
       THEN /\ ret' = Ret("skipped", "no_search_results")
            /\ UNCHANGED flights
       ELSE /\ flights' = AppliedFlights(planner, flights)
            /\ ret' = Ret("success", None)
    /\ UNCHANGED <<planner, visa, accommodation, activities, pc, loc, session_service>>

\* AccommodationState after the body of apply_accommodation_search_results
\* (tools.py:1404-1470).
AppliedAccommodation(p, a) ==
    LET lines == Flatten([i \in 1..Len(a.search_results) |->
                             AccommodationSummaryLine(a.search_results[i])])
    IN  [a EXCEPT !.overall_summary = IF lines # <<>> THEN Join(lines, "\n") ELSE @,
                  !.traveler_accommodations = TravelerAccommodations(p, a)]

apply_accommodation_search_results ==
    /\ call' = Call("apply_accommodation_search_results", None)
    /\ IF accommodation.search_results = <<>>
       THEN /\ ret' = Ret("skipped", "no_search_results")
            /\ UNCHANGED accommodation
       ELSE /\ accommodation' = AppliedAccommodation(planner, accommodation)
            /\ ret' = Ret("success", None)
    /\ UNCHANGED <<planner, visa, flights, activities, pc, loc, session_service>>

----------------------------------------------------------------------------
(* The tools of one domain called in any order, as the agents that own them *)
(* may call them. pc names the domain whose agents run.                     *)

Lagos == Traveler(None, "Lagos")
Abuja == Traveler("ABV", "Abuja")
NoOrigin == Traveler(None, None)

Dec01 == <<2025, 12, 1>>
Dec03 == <<2025, 12, 3>>
Dec05 == <<2025, 12, 5>>
Dec20 == <<2025, 12, 20>>
Dec25 == <<2025, 12, 25>>

ToolsTravelerInputs == { <<Lagos>>, <<Lagos, Abuja>> }

ToolDomains == {"tools_visa", "tools_flights", "tools_accommodation", "tools_activities"}

\* Driver locals outside a pipeline run.
NoLocals == [run |-> "none"]

InitTools ==
    /\ \E travelers \in ToolsTravelerInputs :
          planner = PlannerState(
              TripDetails("UK", "LHR", "Lagos", None, Dec01, Dec20, FALSE),
              travelers, "standard", "planning")
    /\ visa = EmptyVisa
    /\ flights = EmptyFlights
    /\ accommodation = EmptyAccommodation
    /\ activities = EmptyActivities
    /\ call = Call("none", None)
    /\ ret = Ret("none", None)
    /\ pc \in ToolDomains
    /\ loc = NoLocals
    /\ session_service = "live"

visa_derive == pc = "tools_visa" /\ derive_visa_search_tasks
visa_record == pc = "tools_visa" /\ record_visa_search_result
flight_derive == pc = "tools_flights" /\ derive_flight_search_tasks
flight_record == pc = "tools_flights" /\ record_flight_search_result
flight_apply == pc = "tools_flights" /\ apply_flight_search_results
accommodation_derive == pc = "tools_accommodation" /\ derive_accommodation_search_tasks
accommodation_record == pc = "tools_accommodation" /\ record_accommodation_search_result
accommodation_apply == pc = "tools_accommodation" /\ apply_accommodation_search_results
activity_derive == pc = "tools_activities" /\ derive_activity_search_tasks
activity_record == pc = "tools_activities" /\ record_activity_search_result

NextTools ==
    \/ visa_derive
    \/ visa_record
    \/ flight_derive
    \/ flight_record
    \/ flight_apply
    \/ accommodation_derive
    \/ accommodation_record
    \/ accommodation_apply
    \/ activity_derive
    \/ activity_record

SpecTools == InitTools /\ [][NextTools]_vars

----------------------------------------------------------------------------
(* The four derive tools called in any order, any number of times, on one   *)
(* session.                                                                 *)

InitDeriveTasks ==
    /\ \E travelers \in ToolsTravelerInputs :
          planner = PlannerState(
              TripDetails("UK", "LHR", "Lagos", None, Dec01, Dec20, FALSE),
              travelers, "standard", "planning")
    /\ visa = EmptyVisa
    /\ flights = EmptyFlights
    /\ accommodation = EmptyAccommodation
    /\ activities = EmptyActivities
    /\ call = Call("none", None)
    /\ ret = Ret("none", None)
    /\ pc = "tools_derive"
    /\ loc = NoLocals
    /\ session_service = "live"

derive_visa == pc = "tools_derive" /\ derive_visa_search_tasks
derive_flight == pc = "tools_derive" /\ derive_flight_search_tasks
derive_accommodation == pc = "tools_derive" /\ derive_accommodation_search_tasks
derive_activity == pc = "tools_derive" /\ derive_activity_search_tasks

NextDeriveTasks ==
    \/ derive_visa
    \/ derive_flight
    \/ derive_accommodation
    \/ derive_activity

SpecDeriveTasks == InitDeriveTasks /\ [][NextDeriveTasks]_vars

----------------------------------------------------------------------------
(* derive_flight_search_tasks over trips, traveler lists and visa timelines. *)

LagosByCode == Traveler("LOS", "Lagos")

Nov20 == <<2025, 11, 20>>
Feb30 == <<2025, 2, 30>>

DeriveTravelerInputs ==
    { <<>>, <<Lagos>>, <<NoOrigin>>, <<Lagos, Abuja>>, <<Lagos, NoOrigin>>,
      <<Lagos, LagosByCode>>, <<Lagos, Abuja, Lagos>>, <<NoOrigin, Abuja, NoOrigin>>,
      <<Abuja, Lagos, LagosByCode>> }

\* Trip-level (origin, origin_airport_code, destination_airport_code).
DeriveTripInputs ==
    { <<"Lagos", None, "LHR">>, <<"Lagos", "LOS", "LHR">>, <<None, None, "LHR">>,
      <<"Lagos", None, None>> }

DeriveStartInputs == {Dec01, Feb30, NoDate}
DeriveEndInputs == {Dec20, Dec03, Dec01, Nov20, NoDate}
DeriveSafeInputs == {NoDate, Nov20, Dec01, Dec05, Dec20, Dec25}

InitDerive ==
    /\ \E travelers \in DeriveTravelerInputs, trip \in DeriveTripInputs,
          start_date \in DeriveStartInputs, end_date \in DeriveEndInputs,
          flexible_dates \in BOOLEAN :
          planner = PlannerState(
              TripDetails("UK", trip[3], trip[1], trip[2], start_date, end_date,
                          flexible_dates),
              travelers, "standard", "planning")
    /\ \E safe_date \in DeriveSafeInputs :
          visa = [EmptyVisa EXCEPT !.earliest_safe_departure_date = safe_date]
    /\ flights = EmptyFlights
    /\ accommodation = EmptyAccommodation
    /\ activities = EmptyActivities
    /\ call = Call("none", None)
    /\ ret = Ret("none", None)
    /\ pc = "tools_flights"
    /\ loc = NoLocals
    /\ session_service = "live"

NextDerive == flight_derive

SpecDerive == InitDerive /\ [][NextDerive]_vars

\* The flight tasks a session holds before the call: none, or the task of an
\* earlier derivation for a traveler from Lagos.
StoredFlightTaskInputs ==
    { <<>>,
      NewFlightTasks(
          PlannerState(TripDetails("UK", "LHR", "Lagos", None, Dec01, Dec20, FALSE),
                       <<Lagos>>, "standard", "planning"),
          EmptyVisa, EmptyFlights) }

\* derive_flight_search_tasks on a session that may hold a task already.
InitDeriveStored ==
    /\ \E travelers \in DeriveTravelerInputs, trip \in DeriveTripInputs,
          start_date \in DeriveStartInputs :
          planner = PlannerState(
              TripDetails("UK", trip[3], trip[1], trip[2], start_date, Dec20, FALSE),
              travelers, "standard", "planning")
    /\ \E safe_date \in {NoDate, Dec05} :
          visa = [EmptyVisa EXCEPT !.earliest_safe_departure_date = safe_date]
    /\ \E tasks \in StoredFlightTaskInputs :
          flights = [EmptyFlights EXCEPT !.search_tasks = tasks]
    /\ accommodation = EmptyAccommodation
    /\ activities = EmptyActivities
    /\ call = Call("none", None)
    /\ ret = Ret("none", None)
    /\ pc = "tools_flights"
    /\ loc = NoLocals
    /\ session_service = "live"

SpecDeriveStored == InitDeriveStored /\ [][NextDerive]_vars

----------------------------------------------------------------------------
(* run_flight_pipeline and run_flight_search_pipeline (run.py:942-1459).    *)
(* pc is the agent being run or the place the driver stands at; loc holds    *)
(* the driver's local variables.                                             *)

\* A dict in insertion order: a sequence of [key, value] with distinct keys.
DictKeys(d) == {d[i].key : i \in 1..Len(d)}

\* d.get(key) or []
DictGet(d, key) ==
    IF key \in DictKeys(d)
    THEN d[CHOOSE i \in 1..Len(d) : d[i].key = key].value
    ELSE <<>>

\* d[key] = value
DictSet(d, key, value) ==
    IF key \in DictKeys(d)
    THEN [i \in 1..Len(d) |-> IF d[i].key = key THEN [key |-> key, value |-> value]
                               ELSE d[i]]
    ELSE Append(d, [key |-> key, value |-> value])

\* A normalized option of searchapi_google_flights (no legs).
RawFlight(source, price, duration_minutes) ==
    [source |-> source, price |-> price, duration_minutes |-> duration_minutes]

\* tool_result as stage 1 extracts it from the events of
\* flight_search_tool_agent, a sequence of at most one dict: no function
\* response, an error dict (it has no "options"), or a success dict.
ToolError(reason) == [status |-> "error", reason |-> reason, options |-> <<>>]
ToolSuccess(options) == [status |-> "success", reason |-> None, options |-> options]

FlightToolResultInputs ==
    { <<>>,
      <<ToolError("request_failed")>>,
      <<ToolSuccess(<<>>)>>,
      <<ToolSuccess(<<RawFlight("other", 300, 900), RawFlight("best", 450, 420)>>)>> }

\* date.today() on the day of the run: before or after the trip of the model.
TodayInputs == {Nov20, Dec25}

\* The early guard of run.py:1062-1075.
DepartureInPast(task, today) ==
    LET departure_str == IF task.recommended_departure_date # NoDate
                         THEN task.recommended_departure_date
                         ELSE task.original_departure_date
    IN  /\ departure_str # NoDate
        /\ FromIso(departure_str) # NoDt
        /\ FromIso(departure_str) < FromIso(today)

\* candidate_options of run.py:1135-1141.
CandidateOptions(tool_result) ==
    LET options_raw == tool_result.options
        best_options == SelectSeq(options_raw, LAMBDA o : o.source = "best")
    IN  IF best_options # <<>> THEN best_options ELSE options_raw

\* _get_price and _get_duration return None for a value that is not a
\* number (run.py:966-972).
NoNumber == -1

\* _canonical_option of run.py:974-1008.
CanonicalFlightOption(task, label, opt) ==
    LET num_travelers == Len(task.traveler_indexes)
        total == IF opt.price = NoNumber THEN NoNumber
                 ELSE IF num_travelers > 0 THEN opt.price * num_travelers
                 ELSE opt.price
    IN  FlightOption(label, total)
            @@ [price_per_ticket_low |-> opt.price,
                total_trip_duration_minutes |-> opt.duration_minutes]

\* The first option of the list, whatever its price.
FirstFlight(options) == options[1]

\* min(priced, key=_get_price): the first option of least price.
CheapestFlight(options) ==
    options[CHOOSE i \in 1..Len(options) :
                \A j \in 1..Len(options) :
                    \/ options[i].price < options[j].price
                    \/ options[i].price = options[j].price /\ i <= j]

\* min(durd, key=_get_duration): the first option of least duration.
FastestFlight(options) ==
    options[CHOOSE i \in 1..Len(options) :
                \A j \in 1..Len(options) :
                    \/ options[i].duration_minutes < options[j].duration_minutes
                    \/ options[i].duration_minutes = options[j].duration_minutes
                       /\ i <= j]

\* list(seen.values()) after seen.setdefault(opt["option_type"], opt) for
\* every option (run.py:1028-1031): the first option of each option_type.
DedupeByOptionType(canonical) ==
    LET first == [i \in 1..Len(canonical) |->
                     \A j \in 1..(i - 1) :
                         canonical[j].option_type # canonical[i].option_type]
        idx == SeqFilterIdx(first, 0, Len(canonical))
    IN  [k \in 1..Len(idx) |-> canonical[idx[k] + 1]]

\* _build_canonical_flight_options (run.py:959-1032). cheapest, fastest and
\* balanced are lists of at most one raw option (None is the empty list).
BuildCanonicalFlightOptions(task, options) ==
    IF options = <<>> THEN <<>>
    ELSE LET priced == SelectSeq(options, LAMBDA o : o.price # NoNumber)
             cheapest == IF priced # <<>> THEN <<CheapestFlight(priced)>> ELSE <<>>
             durd == SelectSeq(options, LAMBDA o : o.duration_minutes # NoNumber)
             fastest == IF durd # <<>> THEN <<FastestFlight(durd)>> ELSE <<>>
             best == SelectSeq(options, LAMBDA o : o.source = "best")
             balanced == IF best # <<>> THEN <<best[1]>>
                         ELSE IF cheapest # <<>> THEN cheapest
                         ELSE <<options[1]>>
             canonical ==
                 [i \in 1..Len(cheapest) |->
                     CanonicalFlightOption(task, "cheapest", cheapest[i])]
                 \o [i \in 1..Len(fastest) |->
                        CanonicalFlightOption(task, "fastest", fastest[i])]
                 \o [i \in 1..Len(balanced) |->
                        CanonicalFlightOption(task, "balanced", balanced[i])]
         IN  DedupeByOptionType(canonical)

\* A derivation that runs on every invocation.
AlwaysDerive(flight_state) == TRUE

\* run.py:1405
NeedsFlightDerivation(flight_state) == flight_state.search_tasks = <<>>

\* A guard that searches whenever some task has no result yet.
RunsFlightSearchWhilePending(flight_state) ==
    \E i \in 1..Len(flight_state.search_tasks) :
        flight_state.search_tasks[i].task_id \notin TaskIds(flight_state.search_results)

\* run.py:1452
RunsFlightSearch(flight_state) ==
    flight_state.search_tasks # <<>> /\ flight_state.search_results = <<>>

\* pending_tasks of run.py:1047-1051.
PendingTasks(state) ==
    SelectSeq(state.search_tasks,
              LAMBDA t : t.task_id \notin TaskIds(state.search_results))

NoCall == Call("none", None)
NoRet == Ret("none", None)

\* run.py:1452-1458 and the entry of run_flight_search_pipeline
\* (run.py:1039-1058) on the flight state just loaded, after flight_agent
\* ran in this invocation or without it; otherwise
\* run_flight_pipeline returns, to be invoked again on the driver's next turn.
EnterFlightSearch(flight_state, ran_flight_agent) ==
    IF RunsFlightSearch(flight_state)
    THEN /\ pc' = "flight_search_tool_agent"
         /\ loc' = [run |-> "flights",
                    ran_flight_agent |-> ran_flight_agent,
                    flight_state |-> flight_state,
                    pending_tasks |-> PendingTasks(flight_state),
                    task_index |-> 1,
                    failed_task_ids |-> <<>>,
                    summary_attempted_task_ids |-> <<>>,
                    canonical_flight_options_by_task |-> <<>>,
                    pre_apply_search_results |-> <<>>]
    ELSE /\ pc' = "run_flight_pipeline"
         /\ loc' = NoLocals

\* run_flight_pipeline up to its first agent (run.py:1394-1411).
run_flight_pipeline ==
    /\ pc = "run_flight_pipeline"
    /\ IF NeedsFlightDerivation(flights)
       THEN /\ pc' = "flight_agent"
            /\ loc' = [run |-> "flights", ran_flight_agent |-> TRUE,
                       flight_state |-> flights]
       ELSE EnterFlightSearch(flights, FALSE)
    /\ call' = NoCall
    /\ ret' = NoRet
    /\ UNCHANGED <<planner, visa, flights, accommodation, activities, session_service>>

\* flight_agent calls its one tool.
flight_agent == pc = "flight_agent" /\ derive_flight_search_tasks

\* flight_agent gives its final response; the driver reloads the flight
\* state (run.py:1440-1446) and goes on to phase 2.
flight_agent_returns ==
    /\ pc = "flight_agent"
    /\ EnterFlightSearch(flights, TRUE)
    /\ call' = NoCall
    /\ ret' = NoRet
    /\ UNCHANGED <<planner, visa, flights, accommodation, activities, session_service>>

\* The loop `for task in pending_tasks` moves to its next task.
NextFlightTask == [loc EXCEPT !.task_index = @ + 1]

\* The same after a tool_result without usable options: failed_task_ids
\* keeps the ids of those tasks (the code keeps no such list; it prints a
\* line, run.py:1143-1147).
NextFlightTaskAfterFailure ==
    [loc EXCEPT !.task_index = @ + 1,
                !.failed_task_ids = Append(@, loc.pending_tasks[loc.task_index].task_id)]

\* One pass of the loop up to stage 2 (run.py:1060-1161): the date guard,
\* stage 1 with flight_search_tool_agent, whose search tool writes no session
\* state, and the bookkeeping before the summarization agent runs.
flight_search_tool_agent ==
    /\ pc = "flight_search_tool_agent"
    /\ loc.task_index <= Len(loc.pending_tasks)
    /\ \E today \in TodayInputs, tool_result \in FlightToolResultInputs :
          LET task == loc.pending_tasks[loc.task_index]
          IN  IF DepartureInPast(task, today)
              THEN /\ loc' = NextFlightTask
                   /\ pc' = pc
              ELSE IF tool_result = <<>>
              THEN /\ loc' = NextFlightTask
                   /\ pc' = pc
              ELSE IF CandidateOptions(tool_result[1]) = <<>>
              THEN /\ loc' = NextFlightTaskAfterFailure
                   /\ pc' = pc
              ELSE /\ loc' = [loc EXCEPT
                        !.canonical_flight_options_by_task =
                            DictSet(@, task.task_id,
                                    BuildCanonicalFlightOptions(
                                        task, CandidateOptions(tool_result[1]))),
                        !.summary_attempted_task_ids = Append(@, task.task_id)]
                   /\ pc' = "flight_search_agent"
    /\ call' = NoCall
    /\ ret' = NoRet
    /\ UNCHANGED <<planner, visa, flights, accommodation, activities, session_service>>

\* Stage 2: flight_search_agent calls its one tool.
flight_search_agent == pc = "flight_search_agent" /\ record_flight_search_result

\* flight_search_agent gives its final response (run.py:1185-1198).
flight_search_agent_returns ==
    /\ pc = "flight_search_agent"
    /\ pc' = "flight_search_tool_agent"
    /\ loc' = [loc EXCEPT !.task_index = @ + 1]
    /\ call' = NoCall
    /\ ret' = NoRet
    /\ UNCHANGED <<planner, visa, flights, accommodation, activities, session_service>>

FlightStubNotes ==
    "Stub FlightSearchResult added by pipeline fallback; no structured "
        \o "FlightOption entries are attached."

\* A stub filed under an id that no task carries.
OrphanFlightStub(task, options_payload) ==
    [task_id |-> UnknownTaskId,
     options |-> ParseFlightOptions(options_payload),
     summary |-> "Fallback summary for flights",
     best_time_hint |-> None,
     recommended_option_label |-> None,
     notes |-> FlightStubNotes,
     chosen_option_type |-> None]

\* fallback_result of run.py:1229-1261 (the traveler indexes are left out of
\* the summary text).
FlightStub(task, options_payload) ==
    [task_id |-> task.task_id,
     options |-> ParseFlightOptions(options_payload),
     summary |-> "Fallback summary for flights from "
                     \o Or(task.origin_city, "UNKNOWN ORIGIN") \o " to "
                     \o Or(task.destination_city, "UNKNOWN DESTINATION"),
     best_time_hint |-> None,
     recommended_option_label |-> None,
     notes |-> FlightStubNotes,
     chosen_option_type |-> None]

\* missing_task_ids of run.py:1214-1217 / 1743-1747.
MissingTaskIds(task_ids, results) ==
    SelectSeq(task_ids, LAMBDA task_id : task_id \notin TaskIds(results))

\* tasks_by_id.get(task_id), a sequence of at most one task.
TaskById(tasks, task_id) == SelectSeq(tasks, LAMBDA t : t.task_id = task_id)

\* The stubs appended by the loop of run.py:1226-1262, in order.
FlightStubs(state, attempted, canonical) ==
    LET missing == MissingTaskIds(attempted, state.search_results)
        found == SelectSeq(missing, LAMBDA task_id : TaskById(state.search_tasks, task_id) # <<>>)
    IN  [k \in 1..Len(found) |->
            FlightStub(TaskById(state.search_tasks, found[k])[1],
                       DictGet(canonical, found[k]))]

\* flight_state_post after run.py:1205-1262.
FlightStatePost(state, attempted, canonical) ==
    [state EXCEPT !.search_results = @ \o FlightStubs(state, attempted, canonical)]

\* What the session holds after the driver assigned `value` into the state of
\* the session object it got from get_session.
DriverWrite(stored, value) == IF session_service = "live" THEN value ELSE stored

\* After the loop: the stub fallback with its write into the session object
\* (run.py:1205-1273) and the snapshot of the reloaded results
\* (run.py:1275-1286).
ensure_flight_results ==
    /\ pc = "flight_search_tool_agent"
    /\ loc.task_index > Len(loc.pending_tasks)
    /\ flights' = IF loc.summary_attempted_task_ids # <<>>
                  THEN DriverWrite(flights,
                                   FlightStatePost(flights, loc.summary_attempted_task_ids,
                                                   loc.canonical_flight_options_by_task))
                  ELSE flights
    /\ loc' = [loc EXCEPT !.pre_apply_search_results = flights'.search_results]
    /\ pc' = "flight_apply_agent"
    /\ call' = NoCall
    /\ ret' = NoRet
    /\ UNCHANGED <<planner, visa, accommodation, activities, session_service>>

\* flight_apply_agent calls its one tool.
flight_apply_agent == pc = "flight_apply_agent" /\ apply_flight_search_results

\* final_flight_state of run.py:1325-1341.
RestoredFlights(state, snapshot) ==
    IF state.search_results = <<>> /\ snapshot # <<>>
    THEN [state EXCEPT !.search_results = snapshot]
    ELSE state

\* flight_apply_agent gives its final response: the restore of the snapshot
\* and the test for the deterministic apply (run.py:1322-1345).
flight_apply_agent_returns ==
    /\ pc = "flight_apply_agent"
    /\ LET final_flight_state == RestoredFlights(flights, loc.pre_apply_search_results)
       IN  /\ flights' = IF final_flight_state # flights
                         THEN DriverWrite(flights, final_flight_state)
                         ELSE flights
           /\ IF final_flight_state.search_results # <<>>
                 /\ final_flight_state.traveler_flights = <<>>
              THEN pc' = "flight_apply_tool_agent" /\ loc' = loc
              ELSE pc' = "run_flight_pipeline" /\ loc' = NoLocals
    /\ call' = NoCall
    /\ ret' = NoRet
    /\ UNCHANGED <<planner, visa, accommodation, activities, session_service>>

\* flight_apply_tool_agent calls its one tool.
flight_apply_tool_agent == pc = "flight_apply_tool_agent" /\ apply_flight_search_results

\* flight_apply_tool_agent is done and run_flight_pipeline returns
\* (run.py:1361-1381).
flight_apply_tool_agent_returns ==
    /\ pc = "flight_apply_tool_agent"
    /\ pc' = "run_flight_pipeline"
    /\ loc' = NoLocals
    /\ call' = NoCall
    /\ ret' = NoRet
    /\ UNCHANGED <<planner, visa, flights, accommodation, activities, session_service>>

----------------------------------------------------------------------------
(* run_accommodation_pipeline (run.py:1462-2063).                            *)

\* A normalized option of the accommodation search tools (priced, rated,
\* with max_guests, without a name).
RawStay(price, rating, max_guests) ==
    [total_price_low |-> price, rating |-> rating, max_guests |-> max_guests]

AccommodationToolResultInputs ==
    { <<>>,
      <<ToolError("request_failed")>>,
      <<ToolSuccess(<<RawStay(300, 4, 1)>>)>>,
      <<ToolSuccess(<<RawStay(500, 3, 4), RawStay(400, 5, 2), RawStay(450, 4, 1)>>)>> }

\* num_people of run.py:1557-1559, 1622.
NumPeople(p, task) ==
    LET travelers == p.demographics.travelers
        indexes == task.traveler_indexes
        Count(role) == Cardinality({i \in 1..Len(indexes) :
                                       travelers[indexes[i] + 1].role = role})
        adults == IF travelers # <<>> THEN Count("adult") ELSE Len(indexes)
        children == IF travelers # <<>> THEN Count("child") ELSE 0
    IN  IF adults # 0 \/ children # 0 THEN adults + children ELSE Len(indexes)

\* filtered_options of run.py:1623-1631.
FilterByCapacity(options, num_people) ==
    SelectSeq(options, LAMBDA opt : ~(opt.max_guests < num_people))

\* opt.get(key) for a number, None when the dict has no such key.
GetNumber(opt, key) == IF key \in DOMAIN opt THEN opt[key] ELSE NoNumber

\* A price key that reads total_price_low alone.
PriceKeyTotalLowOnly(opt) ==
    IF GetNumber(opt, "total_price_low") # NoNumber THEN opt.total_price_low ELSE 0

\* price_key of tools.py:1634-1637: `a or b` passes over None and over 0.
PriceKey(opt) ==
    LET total == IF GetNumber(opt, "total_price_low") \notin {NoNumber, 0}
                 THEN opt.total_price_low ELSE GetNumber(opt, "total_price_high")
        nightly == IF GetNumber(opt, "nightly_price_low") \notin {NoNumber, 0}
                   THEN opt.nightly_price_low ELSE GetNumber(opt, "nightly_price_high")
    IN  IF total \notin {NoNumber, 0} THEN total
        ELSE IF nightly \notin {NoNumber, 0} THEN nightly
        ELSE 0

\* rating_key of tools.py:1639-1640.
RatingKey(opt) == IF GetNumber(opt, "rating") = NoNumber THEN 0 ELSE opt.rating

StayPrice(i, options) == PriceKey(options[i])
StayRating(i, options) == RatingKey(options[i])

RECURSIVE SortedByPrice(_, _)
\* sorted(raw_options, key=price_key) as positions of raw_options; the sort
\* is stable.
SortedByPrice(options, left) ==
    IF left = {} THEN <<>>
    ELSE LET first == CHOOSE i \in left :
                         \A j \in left :
                             \/ StayPrice(i, options) < StayPrice(j, options)
                             \/ StayPrice(i, options) = StayPrice(j, options) /\ i <= j
         IN  <<first>> \o SortedByPrice(options, left \ {first})

\* The raw options _build_canonical_accommodation_options picks, as
\* positions of raw_options with the option_type each is given
\* (tools.py:1642-1646, 1678-1690); sorted(..., reverse=True) keeps the
\* first of the options of equal rating first.
CanonicalStayPicks(raw_options) ==
    IF raw_options = <<>> THEN <<>>
    ELSE LET by_price == SortedByPrice(raw_options, 1..Len(raw_options))
             cheapest == by_price[1]
             best_loc == CHOOSE i \in 1..Len(raw_options) :
                             \A j \in 1..Len(raw_options) :
                                 \/ StayRating(i, raw_options) > StayRating(j, raw_options)
                                 \/ StayRating(i, raw_options) = StayRating(j, raw_options)
                                    /\ i <= j
             head == <<[option_type |-> "cheapest", source |-> cheapest]>>
                     \o (IF best_loc # cheapest
                         THEN <<[option_type |-> "best_location", source |-> best_loc]>>
                         ELSE <<>>)
             others == SelectSeq(by_price, LAMBDA i : i # cheapest /\ i # best_loc)
             room == IF Len(others) < 3 - Len(head) THEN Len(others) ELSE 3 - Len(head)
         IN  head \o [k \in 1..room |-> [option_type |-> "balanced", source |-> others[k]]]

\* _build_canonical_accommodation_options (tools.py:1621-1692): make_option
\* copies the fields of the raw option, total_price_low among them.
BuildCanonicalAccommodationOptions(raw_options) ==
    LET picks == CanonicalStayPicks(raw_options)
    IN  [k \in 1..Len(picks) |->
            AccommodationOption(picks[k].option_type,
                                GetNumber(raw_options[picks[k].source], "total_price_low"))]

\* canonical_options of one pass of the loop, [] on the three early exits
\* of run.py:1611-1651.
CanonicalStays(p, task, tool_result) ==
    LET options == tool_result.options
        num_people == NumPeople(p, task)
        filtered_options == IF num_people # 0 THEN FilterByCapacity(options, num_people)
                            ELSE options
    IN  BuildCanonicalAccommodationOptions(filtered_options)

\* run.py:1482
NeedsAccommodationDerivation(accommodation_state) ==
    accommodation_state.search_tasks = <<>>

\* run.py:1529
RunsAccommodationSearch(accommodation_state) ==
    accommodation_state.search_tasks # <<>> /\ accommodation_state.search_results = <<>>

\* run.py:1529-1555 on the accommodation state just loaded; otherwise
\* run_accommodation_pipeline returns, to be invoked again on the driver's
\* next turn.
EnterAccommodationSearch(accommodation_state) ==
    IF RunsAccommodationSearch(accommodation_state)
    THEN /\ pc' = "accommodation_search_tool_agent"
         /\ loc' = [run |-> "accommodation",
                    accommodation_state |-> accommodation_state,
                    pending_tasks |-> PendingTasks(accommodation_state),
                    task_index |-> 1,
                    summary_attempted_task_ids |-> <<>>,
                    canonical_options_by_task |-> <<>>]
    ELSE /\ pc' = "run_accommodation_pipeline"
         /\ loc' = NoLocals

\* run_accommodation_pipeline up to its first agent (run.py:1473-1488).
run_accommodation_pipeline ==
    /\ pc = "run_accommodation_pipeline"
    /\ IF NeedsAccommodationDerivation(accommodation)
       THEN /\ pc' = "accommodation_agent"
            /\ loc' = [run |-> "accommodation", accommodation_state |-> accommodation]
       ELSE EnterAccommodationSearch(accommodation)
    /\ call' = NoCall
    /\ ret' = NoRet
    /\ UNCHANGED <<planner, visa, flights, accommodation, activities, session_service>>

\* accommodation_agent calls its one tool.
accommodation_agent == pc = "accommodation_agent" /\ derive_accommodation_search_tasks

\* accommodation_agent gives its final response; the driver reloads the
\* accommodation state (run.py:1519-1525).
accommodation_agent_returns ==
    /\ pc = "accommodation_agent"
    /\ EnterAccommodationSearch(accommodation)
    /\ call' = NoCall
    /\ ret' = NoRet
    /\ UNCHANGED <<planner, visa, flights, accommodation, activities, session_service>>

\* One pass of the loop up to the summarization agent (run.py:1556-1652):
\* stage 1 with accommodation_search_tool_agent, whose search tools write no
\* session state, the capacity filter and the canonical options.
accommodation_search_tool_agent ==
    /\ pc = "accommodation_search_tool_agent"
    /\ loc.task_index <= Len(loc.pending_tasks)
    /\ \E tool_result \in AccommodationToolResultInputs :
          LET task == loc.pending_tasks[loc.task_index]
          IN  IF tool_result = <<>>
              THEN /\ loc' = [loc EXCEPT !.task_index = @ + 1]
                   /\ pc' = pc
              ELSE LET canonical_options == CanonicalStays(planner, task, tool_result[1])
                       attempted == [loc EXCEPT
                           !.summary_attempted_task_ids = Append(@, task.task_id),
                           !.canonical_options_by_task =
                               DictSet(@, task.task_id, canonical_options)]
                   IN  IF canonical_options = <<>>
                       THEN /\ loc' = [attempted EXCEPT !.task_index = @ + 1]
                            /\ pc' = pc
                       ELSE /\ loc' = attempted
                            /\ pc' = "accommodation_search_agent"
    /\ call' = NoCall
    /\ ret' = NoRet
    /\ UNCHANGED <<planner, visa, flights, accommodation, activities, session_service>>

\* Stage 2: accommodation_search_agent calls its one tool.
accommodation_search_agent ==
    pc = "accommodation_search_agent" /\ record_accommodation_search_result

\* accommodation_search_agent is done (run.py:1669-1688).
accommodation_search_agent_returns ==
    /\ pc = "accommodation_search_agent"
    /\ pc' = "accommodation_search_tool_agent"
    /\ loc' = [loc EXCEPT !.task_index = @ + 1]
    /\ call' = NoCall
    /\ ret' = NoRet
    /\ UNCHANGED <<planner, visa, flights, accommodation, activities, session_service>>

\* next((o for o in options if o.option_type == option_type), default), as
\* a sequence of at most one option.
FirstOption(options, option_type, default) ==
    LET matching == SelectSeq(options, LAMBDA o : o.option_type = option_type)
    IN  IF matching # <<>> THEN <<matching[1]>> ELSE default

\* The repair of one recorded result without options (run.py:1708-1734).
RepairedResult(result, canonical) ==
    LET option_models == ParseAccommodationOptions(DictGet(canonical, result.task_id))
    IN  IF result.options # <<>> \/ option_models = <<>> THEN result
        ELSE [result EXCEPT
                !.options = option_models,
                !.chosen_option_type =
                    IF Truthy(@) THEN @
                    ELSE IF FirstOption(option_models, "balanced", <<>>) # <<>>
                    THEN "balanced"
                    ELSE option_models[1].option_type]

\* best_price_hint of run.py:1774-1786 / 1935-1947 (the options of the model
\* carry total_price_low only).
StubPriceHint(options_payload) ==
    IF options_payload = <<>> THEN None
    ELSE LET cheapest == FirstOption(options_payload, "cheapest",
                                     <<options_payload[1]>>)[1]
         IN  IF cheapest.total_price_low # 0
             THEN "Approximate total price for the stay: "
                      \o ToString(cheapest.total_price_low)
             ELSE None

NotFetched == "live accommodation options could not be fetched."
NotRecorded == "no normalized result was recorded."

\* fallback_summary of run.py:1766-1772 / 1927-1931 (the traveler indexes
\* are left out of the text).
AccommodationFallbackSummary(task, reason) ==
    "Fallback summary for accommodation in " \o task.location \o ": " \o reason

\* The AccommodationSearchResult of run.py:1794-1814 / 1954-1974; the
\* options of the model have no name, so no recommended_option_label.
AccommodationStub(task, options_payload, reason) ==
    [task_id |-> task.task_id,
     options |-> ParseAccommodationOptions(options_payload),
     summary |-> AccommodationFallbackSummary(task, reason),
     best_price_hint |-> StubPriceHint(options_payload),
     best_location_hint |-> None,
     recommended_option_label |-> None,
     chosen_option_type |-> IF options_payload # <<>> THEN "balanced" ELSE None,
     selection_reason |-> IF options_payload # <<>>
                          THEN "Balanced choice based on price, location, and rating."
                          ELSE None]

\* accommodation_state_post after run.py:1692-1815: the repair, then one stub
\* for every task of the state loaded before the loop that has no result.
AccommodationStatePost(state, tasks, canonical) ==
    LET repaired == IF canonical # <<>>
                    THEN [i \in 1..Len(state.search_results) |->
                             RepairedResult(state.search_results[i], canonical)]
                    ELSE state.search_results
        missing == MissingTaskIds([i \in 1..Len(tasks) |-> tasks[i].task_id], repaired)
        stubs == [k \in 1..Len(missing) |->
                     AccommodationStub(TaskById(tasks, missing[k])[1],
                                       DictGet(canonical, missing[k]),
                                       NotFetched)]
    IN  [state EXCEPT !.search_results = repaired \o stubs]

\* After the loop: repair and stubs with the write into the session object
\* (run.py:1692-1821).
ensure_accommodation_results ==
    /\ pc = "accommodation_search_tool_agent"
    /\ loc.task_index > Len(loc.pending_tasks)
    /\ accommodation' =
          IF loc.summary_attempted_task_ids # <<>>
          THEN DriverWrite(accommodation,
                           AccommodationStatePost(accommodation,
                                                  loc.accommodation_state.search_tasks,
                                                  loc.canonical_options_by_task))
          ELSE accommodation
    /\ pc' = "accommodation_apply_agent"
    /\ loc' = loc
    /\ call' = NoCall
    /\ ret' = NoRet
    /\ UNCHANGED <<planner, visa, flights, activities, session_service>>

\* accommodation_apply_agent calls its one tool.
accommodation_apply_agent ==
    pc = "accommodation_apply_agent" /\ apply_accommodation_search_results

\* fallback_results of run.py:1916-1975, in the order of the dict.
FallbackResults(state, canonical) ==
    LET usable == SelectSeq(canonical, LAMBDA entry :
                     /\ TaskById(state.search_tasks, entry.key) # <<>>
                     /\ ParseAccommodationOptions(entry.value) # <<>>)
    IN  [k \in 1..Len(usable) |->
            AccommodationStub(TaskById(state.search_tasks, usable[k].key)[1],
                              usable[k].value,
                              NotRecorded)]

\* final_accommodation_state after the last fallback (run.py:1910-2058).
FinalAccommodationState(p, state, canonical) ==
    LET fallback_results == IF state.search_results = <<>> /\ canonical # <<>>
                            THEN FallbackResults(state, canonical)
                            ELSE <<>>
    IN  IF fallback_results # <<>>
        THEN AppliedAccommodation(p, [state EXCEPT !.search_results = fallback_results])
        ELSE state

\* The end of run_accommodation_pipeline: the last fallback with its write
\* into the session object (run.py:1906-2063).
ReturnFromAccommodation ==
    /\ accommodation' =
          DriverWrite(accommodation,
                      FinalAccommodationState(planner, accommodation,
                                              loc.canonical_options_by_task))
    /\ pc' = "run_accommodation_pipeline"
    /\ loc' = NoLocals

\* accommodation_apply_agent gives its final response (run.py:1863-1875).
accommodation_apply_agent_returns ==
    /\ pc = "accommodation_apply_agent"
    /\ IF accommodation.search_results # <<>>
          /\ accommodation.traveler_accommodations = <<>>
       THEN /\ pc' = "accommodation_apply_tool_agent"
            /\ UNCHANGED <<accommodation, loc>>
       ELSE ReturnFromAccommodation
    /\ call' = NoCall
    /\ ret' = NoRet
    /\ UNCHANGED <<planner, visa, flights, activities, session_service>>

\* accommodation_apply_tool_agent calls its one tool.
accommodation_apply_tool_agent ==
    pc = "accommodation_apply_tool_agent" /\ apply_accommodation_search_results

\* accommodation_apply_tool_agent is done (run.py:1890-1904).
accommodation_apply_tool_agent_returns ==
    /\ pc = "accommodation_apply_tool_agent"
    /\ ReturnFromAccommodation
    /\ call' = NoCall
    /\ ret' = NoRet
    /\ UNCHANGED <<planner, visa, flights, activities, session_service>>

----------------------------------------------------------------------------
(* The itinerary synthesis of run_activity_pipeline (run.py:2268-2575).     *)
(* loc holds the driver's locals: the trip calendar, the start of the        *)
(* current chunk, the items parsed from the agent's reply, the accumulated   *)
(* items, the seen sets and the neighborhoods accepted per date.             *)

\* Days of the trip calendar planned per run of day_itinerary_search_agent.
chunk_size == 3

\* Most items the agent proposes for one chunk.
MaxItems == 2

\* str.lower() on the texts of the model.
Lower(s) ==
    CASE s = "Tower of London" -> "tower of london"
      [] s = "Hotel Breakfast" -> "hotel breakfast"
      [] s = "British Museum" -> "british museum"
      [] s = "Borough Market" -> "borough market"
      [] s = "London" -> "london"
      [] s = "Morning" -> "morning"
      [] s = "Visa required" -> "visa required"
      [] s = "No visa required for stays up to 6 months" ->
             "no visa required for stays up to 6 months"
      [] s = "Nigerian citizens require a visa" -> "nigerian citizens require a visa"
      [] s = "You do not require a visa" -> "you do not require a visa"
      [] s = "Apply for a Standard Visitor Visa" -> "apply for a standard visitor visa"
      [] s = "Tourist visa on arrival" -> "tourist visa on arrival"
      [] s = "Entry rules" -> "entry rules"
      [] OTHER -> s

\* str.strip() on the texts of the items.
StripText(s) ==
    CASE s = " tower of london " -> "tower of london"
      [] s = " Bloomsbury " -> "Bloomsbury"
      [] s = "evening " -> "evening"
      [] OTHER -> Strip(s)

\* `token in name_norm` for the meal tokens, on the lowered texts of the model.
ContainsToken(name_norm, token) ==
    \/ token = "breakfast" /\ name_norm \in {"hotel breakfast", "breakfast"}
    \/ token = "lunch" /\ name_norm \in {"lunch", "pub lunch"}
    \/ token = "dinner" /\ name_norm \in {"dinner", "farewell dinner"}

\* One element of parsed_day.items: the keys the filter reads (a missing key
\* reads as None).
RawItem(date, slot, name, title, city, url, neighborhood) ==
    [date |-> date, slot |-> slot, name |-> name, title |-> title, label |-> None,
     city |-> city, url |-> url, neighborhood |-> neighborhood,
     task_id |-> None, notes |-> None]

\* DayItineraryItem with its ActivityOption (activity_state.py:212-240).
DayItineraryItem(date, slot, traveler_indexes, task_id, name, neighborhood, city, url) ==
    [date |-> date, slot |-> slot, traveler_indexes |-> traveler_indexes,
     task_id |-> task_id,
     activity |-> [name |-> name, neighborhood |-> neighborhood, city |-> city,
                   url |-> url, notes |-> None],
     notes |-> None]

\* raw.get("name") or raw.get("title") or raw.get("label")
RawName(raw) == Or(raw.name, Or(raw.title, raw.label))

\* slot_raw.strip().lower()
SlotNormalized(raw) == Lower(StripText(raw.slot))

\* The checks of run.py:2462-2473: date and slot are texts, the name is a
\* non-blank text and the slot is one of the three.
IsWellFormed(raw) ==
    /\ raw.date # None
    /\ raw.slot # None
    /\ RawName(raw) # None /\ StripText(RawName(raw)) # ""
    /\ SlotNormalized(raw) \in {"morning", "afternoon", "evening"}

\* name_norm, city_norm and the name key of run.py:2487-2488, 2499.
NameNorm(name) == Lower(StripText(name))
CityNorm(city) == Lower(StripText(Or(city, "")))
NameCityKey(name, city) == NameNorm(name) \o "::" \o CityNorm(city)

\* is_meal of run.py:2491-2494.
IsMeal(name) ==
    \E token \in {"breakfast", "lunch", "dinner"} : ContainsToken(NameNorm(name), token)

\* (raw.get("neighborhood") or "").strip()
Neighborhood(raw) == StripText(Or(raw.neighborhood, ""))

\* The seen sets seeded from the items that already exist (run.py:2348-2360).
SeededByUrl(items) ==
    {items[i].activity.url : i \in {j \in 1..Len(items) : Truthy(items[j].activity.url)}}

SeededByNameCity(items) ==
    {NameCityKey(items[i].activity.name, items[i].activity.city) :
        i \in {j \in 1..Len(items) : NameNorm(Or(items[j].activity.name, "")) # ""}}

\* The dedupe test of run.py:2496-2503.
IsRepeat(raw, by_url, by_name_city) ==
    IF Truthy(raw.url) THEN raw.url \in by_url
    ELSE IF ~IsMeal(RawName(raw))
    THEN NameCityKey(RawName(raw), raw.city) \in by_name_city
    ELSE FALSE

\* A cap that lets a third neighborhood in: `> 2` in place of `>= 2`.
OverNeighborhoodCapOffByOne(raw, neighborhoods_by_date) ==
    /\ Neighborhood(raw) # ""
    /\ Neighborhood(raw) \notin neighborhoods_by_date[raw.date]
    /\ Cardinality(neighborhoods_by_date[raw.date]) > 2

\* The neighborhood cap of run.py:2508-2512.
OverNeighborhoodCap(raw, neighborhoods_by_date) ==
    /\ Neighborhood(raw) # ""
    /\ Neighborhood(raw) \notin neighborhoods_by_date[raw.date]
    /\ Cardinality(neighborhoods_by_date[raw.date]) >= 2

\* Registration that forgets the url of an accepted item.
SeenUrlsForgetful(raw, by_url) == by_url

\* seen_keys["by_url"] after an item is accepted (run.py:2533-2534).
SeenUrls(raw, by_url) ==
    IF Truthy(raw.url) THEN by_url \cup {raw.url} ELSE by_url

\* seen_keys["by_name_city"] after an item is accepted (run.py:2535-2536).
SeenNameCity(raw, by_name_city) ==
    IF ~Truthy(raw.url) /\ ~IsMeal(RawName(raw))
    THEN by_name_city \cup {NameCityKey(RawName(raw), raw.city)}
    ELSE by_name_city

\* neighborhoods_by_date after an item is accepted (run.py:2537-2538).
SeenNeighborhoods(raw, neighborhoods_by_date) ==
    IF Neighborhood(raw) # ""
    THEN [neighborhoods_by_date EXCEPT ![raw.date] = @ \cup {Neighborhood(raw)}]
    ELSE neighborhoods_by_date

\* The item built from an accepted raw item (run.py:2514-2532).
BuiltItem(p, raw) ==
    DayItineraryItem(raw.date, SlotNormalized(raw), AllTravelerIndexes(p),
                     Or(raw.task_id, "*"), StripText(RawName(raw)),
                     raw.neighborhood, raw.city, raw.url)

\* Whether the filter of run.py:2456-2542 accepts the raw item.
Accepts(raw, by_url, by_name_city, neighborhoods_by_date) ==
    /\ IsWellFormed(raw)
    /\ ~IsRepeat(raw, by_url, by_name_city)
    /\ ~OverNeighborhoodCap(raw, neighborhoods_by_date)

\* The dates of _build_trip_calendar_for_itinerary (run.py:526-597): every
\* day from start_date to end_date, none when a date is missing or is not a
\* date. The arrival and departure tags of a day only go into the agent's
\* prompt.
TripCalendar(p) ==
    LET start_dt == FromIso(p.trip_details.start_date)
        end_dt == FromIso(p.trip_details.end_date)
    IN  IF p.trip_details.start_date = NoDate \/ p.trip_details.end_date = NoDate
        THEN <<>>
        ELSE IF start_dt = NoDt \/ end_dt = NoDt \/ end_dt < start_dt THEN <<>>
        ELSE [k \in 1..(end_dt - start_dt + 1) |-> IsoFormat(start_dt + k - 1)]

\* Two digits of a month or a day.
TwoDigits(n) == IF n < 10 THEN "0" \o ToString(n) ELSE ToString(n)

\* The text of a date.
DateText(d) == ToString(d[1]) \o "-" \o TwoDigits(d[2]) \o "-" \o TwoDigits(d[3])

\* The lines of overall_summary (run.py:2555-2559).
ItineraryLines(items) ==
    [i \in 1..Len(items) |->
        DateText(items[i].date) \o " " \o items[i].slot \o ": " \o items[i].activity.name]

Dec02 == <<2025, 12, 2>>
UrlTower == "https://hrp.org.uk/tower-of-london"
UrlBorough == "https://boroughmarket.org.uk"

\* What day_itinerary_search_agent may propose.
RawItemInputs ==
    { RawItem(Dec01, "Morning", "Tower of London", None, "London", UrlTower, "Tower Hill"),
      RawItem(Dec02, "morning", " tower of london ", None, "london", None, None),
      RawItem(Dec02, "afternoon", None, "Tower of London", "London", UrlTower, "Tower Hill"),
      RawItem(Dec01, "morning", "Hotel Breakfast", None, "London", None, None),
      RawItem(Dec02, "morning", "Hotel Breakfast", None, "London", None, None),
      RawItem(Dec01, "afternoon", "British Museum", None, None, None, " Bloomsbury "),
      RawItem(Dec01, "evening ", "Borough Market", None, "London", UrlBorough, "Southwark"),
      RawItem(Dec01, "night", "Soho Jazz Club", None, "London", None, "Soho") }

ItemDates == {raw.date : raw \in RawItemInputs}

\* The final text of the agent for one chunk: none, text that is not the
\* JSON asked for, or a list of items.
NoFinalText == [kind |-> "no_final_text", items |-> <<>>]
Unparseable == [kind |-> "unparseable", items |-> <<>>]
ParsedDay(items) == [kind |-> "items", items |-> items]

\* An element of the items list that is a JSON string, not an object.
NotADict == [text |-> "Free evening"]

IsDict(raw) == DOMAIN raw # {"text"}

\* A list whose first item is an acceptable attraction and whose second is
\* not an object.
ItemsWithText ==
    <<RawItem(Dec01, "afternoon", "British Museum", None, None, None, " Bloomsbury "), NotADict>>

DayReplyInputs ==
    {NoFinalText, Unparseable, ParsedDay(ItemsWithText)}
        \cup {ParsedDay(items) : items \in UNION {[1..n -> RawItemInputs] : n \in 0..MaxItems}}

\* Whether the text validates as DaySliceItineraryOutput, as the object or as
\* the bare list (run.py:82-88, 2430-2442): items is list[Dict[str, Any]], so
\* one element that is not an object fails the whole list.
ValidatesAsSlice(reply) ==
    /\ reply.kind = "items"
    /\ \A n \in 1..Len(reply.items) : IsDict(reply.items[n])

\* An item recorded before the synthesis runs.
ExistingTower ==
    DayItineraryItem(Dec01, "morning", <<0, 1>>, "*", "Tower of London", "Tower Hill",
                     "London", UrlTower)

ExistingPlanInputs == {<<>>, <<ExistingTower>>}

\* The next turn of `for i in range(0, len(trip_calendar), chunk_size)`.
NextChunk(l) ==
    IF l.i + chunk_size < Len(l.trip_calendar)
    THEN /\ pc' = "day_itinerary_search_agent"
         /\ loc' = [l EXCEPT !.i = @ + chunk_size, !.items = <<>>, !.item_index = 1]
    ELSE /\ pc' = "persist_day_plan"
         /\ loc' = [l EXCEPT !.items = <<>>, !.item_index = 1]

\* run.py:2273-2364: load the states, build the calendar, seed the seen sets.
\* Without a calendar accumulated_itinerary_items is never bound and the
\* write-back of run.py:2553 raises.
build_itinerary_context ==
    /\ pc = "run_itinerary_synthesis"
    /\ LET trip_calendar == TripCalendar(planner)
       IN  IF trip_calendar = <<>>
           THEN /\ pc' = "UnboundLocalError"
                /\ loc' = NoLocals
           ELSE /\ pc' = "day_itinerary_search_agent"
                /\ loc' = [run |-> "itinerary",
                           trip_calendar |-> trip_calendar,
                           i |-> 0,
                           items |-> <<>>,
                           item_index |-> 1,
                           preview |-> <<>>,
                           accumulated_itinerary_items |-> activities.day_plan,
                           by_url |-> SeededByUrl(activities.day_plan),
                           by_name_city |-> SeededByNameCity(activities.day_plan),
                           neighborhoods_by_date |-> [d \in ItemDates |-> {}]]
    /\ UNCHANGED <<planner, visa, flights, accommodation, activities, call, ret,
                   session_service>>

\* Phase 1 of a chunk (run.py:2366-2451): the agent's final text, parsed.
\* preview is the text of the slice the log reports as skipped
\* (run.py:2410-2415, 2444-2450), none when the slice was parsed.
day_itinerary_search_agent ==
    /\ pc = "day_itinerary_search_agent"
    /\ \E reply \in DayReplyInputs :
          IF ValidatesAsSlice(reply)
          THEN /\ pc' = "accept_items"
               /\ loc' = [loc EXCEPT !.items = reply.items, !.item_index = 1,
                                     !.preview = <<>>]
          ELSE NextChunk([loc EXCEPT !.preview = <<reply>>])
    /\ UNCHANGED <<planner, visa, flights, accommodation, activities, call, ret,
                   session_service>>

\* Phase 2, one turn of `for raw in parsed_day.items` (run.py:2456-2542).
accept_item ==
    /\ pc = "accept_items"
    /\ loc.item_index <= Len(loc.items)
    /\ LET raw == loc.items[loc.item_index]
       IN  IF Accepts(raw, loc.by_url, loc.by_name_city, loc.neighborhoods_by_date)
           THEN loc' = [loc EXCEPT
                           !.item_index = @ + 1,
                           !.by_url = SeenUrls(raw, @),
                           !.by_name_city = SeenNameCity(raw, @),
                           !.neighborhoods_by_date = SeenNeighborhoods(raw, @),
                           !.accumulated_itinerary_items = Append(@, BuiltItem(planner, raw))]
           ELSE loc' = [loc EXCEPT !.item_index = @ + 1]
    /\ UNCHANGED <<planner, visa, flights, accommodation, activities, call, ret, pc,
                   session_service>>

\* The items of the chunk are exhausted.
end_of_items ==
    /\ pc = "accept_items"
    /\ loc.item_index > Len(loc.items)
    /\ NextChunk(loc)
    /\ UNCHANGED <<planner, visa, flights, accommodation, activities, call, ret,
                   session_service>>

\* ActivityState written back (run.py:2544-2561).
FinalActivityState(state, items) ==
    [state EXCEPT !.day_plan = items,
                  !.overall_summary =
                      IF items # <<>> THEN Join(ItineraryLines(items), "\n") ELSE @]

persist_day_plan ==
    /\ pc = "persist_day_plan"
    /\ activities' = DriverWrite(activities,
                        FinalActivityState(activities, loc.accumulated_itinerary_items))
    /\ pc' = "itinerary_done"
    /\ loc' = NoLocals
    /\ UNCHANGED <<planner, visa, flights, accommodation, call, ret, session_service>>

\* A trip of five days (two chunks) and a trip whose end date lies before
\* its start date. A trip without dates does not come this far: the derive
\* tool gives it no search task (tools.py:2199-2206) and the search phase,
\* the synthesis with it, is guarded by the tasks (run.py:2134).
ItineraryEndInputs == {Dec05, Nov20}

InitItinerary ==
    /\ \E end_date \in ItineraryEndInputs :
          planner = PlannerState(
              TripDetails("London", "LHR", "Lagos", None, Dec01, end_date, FALSE),
              <<Lagos, Abuja>>, "standard", "planning")
    /\ visa = EmptyVisa
    /\ flights = EmptyFlights
    /\ accommodation = EmptyAccommodation
    /\ \E day_plan \in ExistingPlanInputs :
          activities = [EmptyActivities EXCEPT !.day_plan = day_plan]
    /\ call = NoCall
    /\ ret = NoRet
    /\ pc = "run_itinerary_synthesis"
    /\ loc = NoLocals
    /\ session_service \in {"live", "copy"}

NextItinerary ==
    \/ build_itinerary_context
    \/ day_itinerary_search_agent
    \/ accept_item
    \/ end_of_items
    \/ persist_day_plan

SpecItinerary == InitItinerary /\ [][NextItinerary]_vars

----------------------------------------------------------------------------
(* _build_canonical_flight_options over lists of raw options.               *)

\* Longest list of raw options.
MaxOptions == 3

RawPriceInputs == {NoNumber, 300, 450, 500}
RawDurationInputs == {NoNumber, 420, 900}

RawFlightInputs ==
    {RawFlight(source, price, duration_minutes) :
        source \in {"best", "other"}, price \in RawPriceInputs,
        duration_minutes \in RawDurationInputs}

\* A task for two travelers.
CanonicalTask ==
    [task_id |-> "flight_Lagos_LHR_0", traveler_indexes |-> <<0, 1>>]

InitCanonical ==
    /\ planner = PlannerState(
           TripDetails("UK", "LHR", "Lagos", None, Dec01, Dec20, FALSE),
           <<Lagos, Abuja>>, "standard", "planning")
    /\ visa = EmptyVisa
    /\ flights = EmptyFlights
    /\ accommodation = EmptyAccommodation
    /\ activities = EmptyActivities
    /\ call = NoCall
    /\ ret = NoRet
    /\ pc = "build_canonical_flight_options"
    /\ \E options \in UNION {[1..n -> RawFlightInputs] : n \in 0..MaxOptions} :
          loc = [run |-> "canonical", task |-> CanonicalTask, options |-> options,
                 canonical |-> <<>>]
    /\ session_service = "live"

build_canonical_flight_options ==
    /\ pc = "build_canonical_flight_options"
    /\ loc' = [loc EXCEPT !.canonical = BuildCanonicalFlightOptions(loc.task, loc.options)]
    /\ pc' = "canonical_flight_options"
    /\ UNCHANGED <<planner, visa, flights, accommodation, activities, call, ret,
                   session_service>>

NextCanonical == build_canonical_flight_options

SpecCanonical == InitCanonical /\ [][NextCanonical]_vars

----------------------------------------------------------------------------
(* compute_cost_summary_from_state (costs.py:14-171) behind the tool         *)
(* compute_cost_summary (tools.py:650-680).                                  *)

\* A keyword argument that the caller of a model's constructor leaves out.
NotGiven == "NotGiven"

\* FlightOption(**opt) with the fields the cost summary reads
\* (flight_state.py:21-40): currency defaults to "USD", the prices to None.
PricedFlightOption(option_type, currency, total_low, total_high, ticket_low, ticket_high) ==
    [option_type |-> option_type,
     currency |-> IF currency = NotGiven THEN "USD" ELSE currency,
     total_price_low |-> total_low, total_price_high |-> total_high,
     price_per_ticket_low |-> ticket_low, price_per_ticket_high |-> ticket_high]

\* AccommodationOption(**opt) with the fields the cost summary reads
\* (accommodation_state.py:66-85): currency defaults to "USD".
PricedAccommodationOption(option_type, currency, total_low, total_high, nightly_low, nightly_high) ==
    [option_type |-> option_type,
     currency |-> IF currency = NotGiven THEN "USD" ELSE currency,
     total_price_low |-> total_low, total_price_high |-> total_high,
     nightly_price_low |-> nightly_low, nightly_price_high |-> nightly_high]

\* A search result as the cost summary reads it.
CostResult(task_id, chosen_option_type, options) ==
    [task_id |-> task_id, chosen_option_type |-> chosen_option_type, options |-> options]

\* chosen_opt of costs.py:41-50 and 89-98, a list of at most one option: the
\* first option of the chosen type, else the first option.
CostChosenOption(result) ==
    LET matching == SelectSeq(result.options,
                              LAMBDA opt : /\ Truthy(result.chosen_option_type)
                                           /\ opt.option_type = result.chosen_option_type)
    IN  IF matching # <<>> THEN <<matching[1]>>
        ELSE IF result.options # <<>> THEN <<result.options[1]>>
        ELSE <<>>

\* Every amount lands in the bucket "USD".
CurrencyCodeAlwaysUsd(currency) == "USD"

\* code of costs.py:18
CurrencyCode(currency) == Or(currency, "UNKNOWN")

\* The bucket of costs.py:19-26 for a code, created with zeros when missing.
EmptyBucket ==
    [flights_low |-> 0, flights_high |-> 0, accommodation_low |-> 0,
     accommodation_high |-> 0]

WithBucket(currency_totals, code) ==
    IF code \in DOMAIN currency_totals THEN currency_totals
    ELSE currency_totals @@ (code :> EmptyBucket)

\* Python `a or b` on optional numbers: None and 0 are falsy.
OrNumber(a, b) == IF a # NoNumber /\ a # 0 THEN a ELSE b

\* low and high of costs.py:55-67.
FlightLow(opt, party_size) ==
    IF opt.total_price_low # NoNumber THEN opt.total_price_low
    ELSE IF opt.price_per_ticket_low # NoNumber THEN opt.price_per_ticket_low * party_size
    ELSE IF opt.price_per_ticket_high # NoNumber THEN opt.price_per_ticket_high * party_size
    ELSE NoNumber

FlightHigh(opt, party_size) ==
    IF opt.total_price_high # NoNumber THEN opt.total_price_high
    ELSE IF opt.price_per_ticket_high # NoNumber THEN opt.price_per_ticket_high * party_size
    ELSE IF opt.price_per_ticket_low # NoNumber THEN opt.price_per_ticket_low * party_size
    ELSE NoNumber

\* low and high of costs.py:102-103.
AccommodationLow(opt) == OrNumber(opt.total_price_low, opt.nightly_price_low)
AccommodationHigh(opt) == OrNumber(opt.total_price_high, opt.nightly_price_high)

\* bucket[key] += float(amount) when the amount is not None.
AddAmount(bucket_value, amount) ==
    IF amount # NoNumber THEN bucket_value + amount ELSE bucket_value

RECURSIVE AggregateFlightCosts(_, _, _)
\* _aggregate_flight_costs (costs.py:29-73), from the i-th result on.
AggregateFlightCosts(flight_state, i, currency_totals) ==
    IF i > Len(flight_state.search_results) THEN currency_totals
    ELSE LET result == flight_state.search_results[i]
             tasks == SelectSeq(flight_state.search_tasks,
                                LAMBDA t : t.task_id = result.task_id)
             chosen == CostChosenOption(result)
         IN  IF tasks = <<>> \/ chosen = <<>>
             THEN AggregateFlightCosts(flight_state, i + 1, currency_totals)
             ELSE LET task == tasks[Len(tasks)]
                      code == CurrencyCode(chosen[1].currency)
                      totals == WithBucket(currency_totals, code)
                      n == Len(task.traveler_indexes)
                      party_size == IF n > 1 THEN n ELSE 1
                  IN  AggregateFlightCosts(flight_state, i + 1,
                          [totals EXCEPT
                              ![code].flights_low =
                                  AddAmount(@, FlightLow(chosen[1], party_size)),
                              ![code].flights_high =
                                  AddAmount(@, FlightHigh(chosen[1], party_size))])

RECURSIVE AggregateAccommodationCosts(_, _, _)
\* _aggregate_accommodation_costs (costs.py:76-108), from the i-th result on.
AggregateAccommodationCosts(accommodation_state, i, currency_totals) ==
    IF i > Len(accommodation_state.search_results) THEN currency_totals
    ELSE LET result == accommodation_state.search_results[i]
             tasks == SelectSeq(accommodation_state.search_tasks,
                                LAMBDA t : t.task_id = result.task_id)
             chosen == CostChosenOption(result)
         IN  IF tasks = <<>> \/ chosen = <<>>
             THEN AggregateAccommodationCosts(accommodation_state, i + 1, currency_totals)
             ELSE LET code == CurrencyCode(chosen[1].currency)
                      totals == WithBucket(currency_totals, code)
                  IN  AggregateAccommodationCosts(accommodation_state, i + 1,
                          [totals EXCEPT
                              ![code].accommodation_low =
                                  AddAmount(@, AccommodationLow(chosen[1])),
                              ![code].accommodation_high =
                                  AddAmount(@, AccommodationHigh(chosen[1]))])

\* `x or None` on a total.
OrNone(x) == IF x = 0 THEN NoNumber ELSE x

\* currency_totals of the summary (costs.py:144-162).
CurrencyBreakdown(flight_state, accommodation_state) ==
    LET no_totals == [code \in {} |-> EmptyBucket]
        currency_totals ==
            AggregateAccommodationCosts(accommodation_state, 1,
                AggregateFlightCosts(flight_state, 1, no_totals))
    IN  [code \in DOMAIN currency_totals |->
            LET vals == currency_totals[code]
            IN  [flights_low |-> OrNone(vals.flights_low),
                 flights_high |-> OrNone(vals.flights_high),
                 accommodation_low |-> OrNone(vals.accommodation_low),
                 accommodation_high |-> OrNone(vals.accommodation_high),
                 grand_total_low |-> OrNone(vals.flights_low + vals.accommodation_low),
                 grand_total_high |-> OrNone(vals.flights_high + vals.accommodation_high)]]

\* The tool compute_cost_summary (tools.py:650-680); loc holds its summary.
\* visa_fee_hints lists the visa requirements that carry a cost: the visa
\* states of the model hold none.
compute_cost_summary ==
    /\ pc = "tools_costs"
    /\ loc.run = "costs"
    /\ call' = Call("compute_cost_summary", None)
    /\ ret' = Ret("success", None)
    /\ loc' = [loc EXCEPT
                  !.run = "cost_summary",
                  !.currency_totals = CurrencyBreakdown(flights, accommodation),
                  !.budget_mode = planner.preferences.budget_mode]
    /\ UNCHANGED <<planner, visa, flights, accommodation, activities, pc, session_service>>

\* Most search results per domain in the states the cost summary is taken of.
MaxCostResults == 2

\* The keyword arguments an option is constructed from; a price left out is
\* None either way.
OptionKwargs(option_type, currency, total_low, total_high, unit_low, unit_high) ==
    [option_type |-> option_type, currency |-> currency,
     total_low |-> total_low, total_high |-> total_high,
     unit_low |-> unit_low, unit_high |-> unit_high]

\* The results with every option constructed by its model.
ConstructedFlightResults(given) ==
    [i \in 1..Len(given) |->
        [given[i] EXCEPT !.options =
            [k \in 1..Len(@) |->
                PricedFlightOption(@[k].option_type, @[k].currency, @[k].total_low,
                                   @[k].total_high, @[k].unit_low, @[k].unit_high)]]]

ConstructedAccommodationResults(given) ==
    [i \in 1..Len(given) |->
        [given[i] EXCEPT !.options =
            [k \in 1..Len(@) |->
                PricedAccommodationOption(@[k].option_type, @[k].currency,
                                          @[k].total_low, @[k].total_high,
                                          @[k].unit_low, @[k].unit_high)]]]

\* One flight for 1000 to 1200 USD, and what else a flight result may hold:
\* an option without currency priced per ticket, an option in EUR without a
\* high price, an option of currency None, a result of no task and a result
\* without options.
FlightUsd == OptionKwargs("balanced", "USD", 1000, 1200, NoNumber, NoNumber)
FlightPerTicket == OptionKwargs("cheapest", NotGiven, NoNumber, NoNumber, 400, NoNumber)
FlightEur == OptionKwargs("fastest", "EUR", 900, NoNumber, NoNumber, NoNumber)
FlightNoCurrency == OptionKwargs("cheapest", None, 700, 700, NoNumber, NoNumber)

FlightCostResultInputs ==
    { CostResult("flight_0", "balanced", <<FlightUsd>>),
      CostResult("flight_0", None, <<FlightPerTicket, FlightUsd>>),
      CostResult("flight_0", "fastest", <<FlightUsd, FlightEur>>),
      CostResult("flight_0", "balanced", <<FlightNoCurrency>>),
      CostResult("flight_9", "balanced", <<FlightUsd>>),
      CostResult("flight_0", "balanced", <<>>) }

\* One stay for 500 without a currency, and what else an accommodation
\* result may hold.
StayNotGiven == OptionKwargs("balanced", NotGiven, 500, NoNumber, NoNumber, NoNumber)
StayNoCurrency == OptionKwargs("balanced", None, 500, 600, NoNumber, NoNumber)
StayNightly == OptionKwargs("cheapest", "USD", NoNumber, 0, 80, 90)
StayEur == OptionKwargs("luxury", "EUR", 2000, 2500, NoNumber, NoNumber)

AccommodationCostResultInputs ==
    { CostResult("accommodation_0", "balanced", <<StayNotGiven>>),
      CostResult("accommodation_0", "balanced", <<StayNoCurrency>>),
      CostResult("accommodation_0", None, <<StayNightly, StayNoCurrency>>),
      CostResult("accommodation_0", "luxury", <<StayNoCurrency, StayEur>>),
      CostResult("accommodation_9", "balanced", <<StayNoCurrency>>),
      CostResult("accommodation_0", "balanced", <<>>) }

\* A session with one flight task for two travelers and one accommodation
\* task; loc keeps the results as they were given, next to the results of
\* the state.
InitCosts ==
    /\ planner = PlannerState(
           TripDetails("UK", "LHR", "Lagos", None, Dec01, Dec20, FALSE),
           <<Lagos, Abuja>>, "standard", "planning")
    /\ visa = EmptyVisa
    /\ activities = EmptyActivities
    /\ call = NoCall
    /\ ret = NoRet
    /\ pc = "tools_costs"
    /\ session_service = "live"
    /\ \E given_flights \in
              UNION {[1..n -> FlightCostResultInputs] : n \in 0..MaxCostResults},
          given_accommodation \in
              UNION {[1..n -> AccommodationCostResultInputs] : n \in 0..MaxCostResults} :
          /\ flights =
                [EmptyFlights EXCEPT
                    !.search_tasks = <<[task_id |-> "flight_0",
                                        traveler_indexes |-> <<0, 1>>]>>,
                    !.search_results = ConstructedFlightResults(given_flights)]
          /\ accommodation =
                [EmptyAccommodation EXCEPT
                    !.search_tasks = <<[task_id |-> "accommodation_0",
                                        traveler_indexes |-> <<0, 1>>]>>,
                    !.search_results = ConstructedAccommodationResults(given_accommodation)]
          /\ loc = [run |-> "costs",
                    given_flights |-> given_flights,
                    given_accommodation |-> given_accommodation,
                    currency_totals |-> <<>>,
                    budget_mode |-> None]

NextCosts == compute_cost_summary

SpecCosts == InitCosts /\ [][NextCosts]_vars

----------------------------------------------------------------------------
(* Intake: update_trip_plan (tools.py:56-301), is_intake_complete           *)
(* (state_utils.py:122-171) and mark_ready_for_planning                      *)
(* (planning_tools.py:9-41), the tools of the dispatcher agent.              *)
(* An optional list is a sequence of at most one list: <<>> is None. The     *)
(* preferences other than budget_mode and total_budget are assigned when     *)
(* given and read by no other step of the intake; they are left out of the   *)
(* state, as are the list-valued traveler fields, which merge like the       *)
(* string-valued ones.                                                       *)

NoList == <<>>

\* Traveler(**t) of planner_state.py:14-28 with the fields the merge reads.
IntakeTraveler(role, age, nationality, origin, origin_airport_code) ==
    [role |-> role, age |-> age, nationality |-> nationality,
     origin |-> origin, origin_airport_code |-> origin_airport_code]

\* PlannerState(): the state of a fresh session.
DefaultPlannerState ==
    [trip_details |->
        [destination |-> None, destination_airport_code |-> None,
         origin |-> None, origin_airport_code |-> None,
         start_date |-> NoDate, end_date |-> NoDate, flexible_dates |-> FALSE],
     demographics |->
        [adults |-> 1, children |-> 0, seniors |-> 0,
         nationality |-> NoList, travelers |-> <<>>],
     preferences |-> [budget_mode |-> "standard", total_budget |-> NoNumber],
     status |-> "intake"]

\* `n or 0` on an optional count.
OrZero(n) == IF n = NoNumber THEN 0 ELSE n

TotalExpected(demo) == OrZero(demo.adults) + OrZero(demo.children) + OrZero(demo.seniors)

\* The same with the aggregate nationality required together with the
\* per-traveler ones.
is_intake_complete_both_nationalities(state) ==
    LET td == state.trip_details
        demo == state.demographics
        has_trip_origin == Truthy(td.origin) \/ Truthy(td.origin_airport_code)
        has_per_traveler_origin ==
            /\ demo.travelers # <<>>
            /\ \A i \in 1..Len(demo.travelers) :
                  Truthy(demo.travelers[i].origin)
                  \/ Truthy(demo.travelers[i].origin_airport_code)
        basic_ok ==
            /\ Truthy(td.destination)
            /\ td.start_date # NoDate
            /\ td.end_date # NoDate
            /\ state.preferences.budget_mode # None
            /\ (has_trip_origin \/ has_per_traveler_origin)
        has_aggregate_nationality ==
            demo.nationality # NoList /\ demo.nationality # << <<>> >>
        per_traveler_nat_ok ==
            \A i \in 1..Len(demo.travelers) : Truthy(demo.travelers[i].nationality)
    IN  /\ basic_ok
        /\ demo.adults # NoNumber /\ demo.children # NoNumber
        /\ (has_aggregate_nationality /\ per_traveler_nat_ok)
        /\ (TotalExpected(demo) = 0 \/ Len(demo.travelers) >= TotalExpected(demo))

is_intake_complete(state) ==
    LET td == state.trip_details
        demo == state.demographics
        has_trip_origin == Truthy(td.origin) \/ Truthy(td.origin_airport_code)
        has_per_traveler_origin ==
            /\ demo.travelers # <<>>
            /\ \A i \in 1..Len(demo.travelers) :
                  Truthy(demo.travelers[i].origin)
                  \/ Truthy(demo.travelers[i].origin_airport_code)
        basic_ok ==
            /\ Truthy(td.destination)
            /\ td.start_date # NoDate
            /\ td.end_date # NoDate
            /\ state.preferences.budget_mode # None
            /\ (has_trip_origin \/ has_per_traveler_origin)
        has_counts == demo.adults # NoNumber /\ demo.children # NoNumber
        has_aggregate_nationality ==
            demo.nationality # NoList /\ demo.nationality # << <<>> >>
        has_travelers_list ==
            TotalExpected(demo) = 0 \/ Len(demo.travelers) >= TotalExpected(demo)
        per_traveler_nat_ok ==
            \A i \in 1..Len(demo.travelers) : Truthy(demo.travelers[i].nationality)
    IN  /\ basic_ok
        /\ has_counts
        /\ (has_aggregate_nationality \/ per_traveler_nat_ok)
        /\ has_travelers_list


BudgetModes == {"economy", "standard", "luxury"}

\* get_planner_state (state_utils.py:7-36): the stored mapping validated as a
\* PlannerState; a mapping that does not validate (a budget_mode outside the
\* Literal of planner_state.py:41, stored by an unvalidated assignment) is
\* answered by PlannerState().
get_planner_state(stored) ==
    IF stored.preferences.budget_mode \in BudgetModes \cup {None}
    THEN stored
    ELSE DefaultPlannerState

\* planning_tools.py:9-41.
mark_ready_for_planning ==
    LET state == get_planner_state(planner)
    IN  /\ call' = Call("mark_ready_for_planning", None)
        /\ IF state.status # "intake"
           THEN /\ ret' = Ret("skipped", "not_in_intake")
                /\ UNCHANGED planner
           ELSE IF ~is_intake_complete(state)
           THEN /\ ret' = Ret("error", "intake_incomplete")
                /\ UNCHANGED planner
           ELSE /\ planner' = [state EXCEPT !.status = "planning"]
                /\ ret' = Ret("success", None)
        /\ UNCHANGED <<visa, flights, accommodation, activities, pc, loc, session_service>>

TravelerRoles == {"adult", "child", "senior"}

\* Traveler.model_validate(t) succeeds (tools.py:164-169): role is the one
\* required field.
IsTraveler(t) == t.role \in TravelerRoles

\* tools.py:173-185.
MergedTraveler(incoming, base) ==
    IntakeTraveler(Or(incoming.role, base.role),
                   IF incoming.age # NoNumber THEN incoming.age ELSE base.age,
                   Or(incoming.nationality, base.nationality),
                   Or(incoming.origin, base.origin),
                   Or(incoming.origin_airport_code, base.origin_airport_code))

RECURSIVE MergeTravelers(_, _, _)
\* The loop of tools.py:162-190 from position idx on.
MergeTravelers(normalized_travelers, travelers, idx) ==
    IF idx >= Len(travelers) THEN normalized_travelers
    ELSE LET t == travelers[idx + 1]
         IN  IF ~IsTraveler(t)
             THEN MergeTravelers(normalized_travelers, travelers, idx + 1)
             ELSE LET base == IF idx < Len(normalized_travelers)
                              THEN normalized_travelers[idx + 1]
                              ELSE IntakeTraveler(t.role, NoNumber, None, None, None)
                      merged == MergedTraveler(t, base)
                  IN  MergeTravelers(
                          IF idx < Len(normalized_travelers)
                          THEN [normalized_travelers EXCEPT ![idx + 1] = merged]
                          ELSE Append(normalized_travelers, merged),
                          travelers, idx + 1)

\* n placeholders of one role (tools.py:202-207).
Placeholders(n, role, default_nat, default_origin) ==
    [i \in 1..n |-> IntakeTraveler(role, NoNumber, default_nat, default_origin, None)]

\* tools.py:194-209.
InferredTravelers(state) ==
    LET demo == state.demographics
        default_origin == state.trip_details.origin
        default_nat == IF demo.nationality = NoList \/ demo.nationality = << <<>> >>
                       THEN None ELSE demo.nationality[1][1]
    IN  Placeholders(OrZero(demo.adults), "adult", default_nat, default_origin)
        \o Placeholders(OrZero(demo.children), "child", default_nat, default_origin)
        \o Placeholders(OrZero(demo.seniors), "senior", default_nat, default_origin)

\* sorted() over the nationalities of the model.
NationalityOrder == <<"American", "Nigerian">>

\* sorted(nat_values) of tools.py:216-222.
SortedNationalities(travelers) ==
    SelectSeq(NationalityOrder,
              LAMBDA n : \E i \in 1..Len(travelers) : travelers[i].nationality = n)

\* The keyword arguments of one update_trip_plan call; an argument left out
\* is None (NoDate, NoNumber, NoList).
UpdateArgs(destination, origin, start_date, end_date, adults, children, nationality, travelers, budget_mode, total_budget) ==
    [destination |-> destination, origin |-> origin,
     origin_airport_code |-> None, destination_airport_code |-> None,
     start_date |-> start_date, end_date |-> end_date,
     adults |-> adults, children |-> children, seniors |-> NoNumber,
     nationality |-> nationality, travelers |-> travelers,
     budget_mode |-> budget_mode, total_budget |-> total_budget]

\* tools.py:136-158: an argument that is not None is assigned.
WithTripDetails(td, a) ==
    [destination |-> IF a.destination # None THEN a.destination ELSE td.destination,
     origin |-> IF a.origin # None THEN a.origin ELSE td.origin,
     origin_airport_code |->
         IF a.origin_airport_code # None THEN a.origin_airport_code
         ELSE td.origin_airport_code,
     destination_airport_code |->
         IF a.destination_airport_code # None THEN a.destination_airport_code
         ELSE td.destination_airport_code,
     start_date |-> IF a.start_date # NoDate THEN a.start_date ELSE td.start_date,
     end_date |-> IF a.end_date # NoDate THEN a.end_date ELSE td.end_date,
     flexible_dates |-> td.flexible_dates]

\* tools.py:149-157.
WithCounts(demo, a) ==
    [demo EXCEPT
        !.adults = IF a.adults # NoNumber THEN a.adults ELSE @,
        !.children = IF a.children # NoNumber THEN a.children ELSE @,
        !.seniors = IF a.seniors # NoNumber THEN a.seniors ELSE @,
        !.nationality = IF a.nationality # NoList THEN a.nationality ELSE @]

\* tools.py:159-222: the merged, else inferred, travelers and the aggregate
\* nationality inferred from them.
WithTravelers(state, a) ==
    LET merged == IF a.travelers = NoList
                  THEN state.demographics.travelers
                  ELSE MergeTravelers(state.demographics.travelers, a.travelers[1], 0)
        normalized_travelers == IF merged = <<>> THEN InferredTravelers(state) ELSE merged
        nationalities == SortedNationalities(normalized_travelers)
        demo == state.demographics
    IN  IF normalized_travelers = <<>>
        THEN state
        ELSE [state EXCEPT
                !.demographics.travelers = normalized_travelers,
                !.demographics.nationality =
                    IF (demo.nationality = NoList \/ demo.nationality = << <<>> >>)
                       /\ nationalities # <<>>
                    THEN <<nationalities>> ELSE @]

\* tools.py:223-229.
WithBudget(pref, a) ==
    LET cleared == IF a.budget_mode = "luxury" THEN NoNumber ELSE pref.total_budget
        budgeted == IF a.budget_mode # None
                    THEN [budget_mode |-> a.budget_mode, total_budget |-> cleared]
                    ELSE pref
    IN  IF a.total_budget # NoNumber
        THEN [budgeted EXCEPT !.total_budget = a.total_budget]
        ELSE budgeted

\* update_trip_plan (tools.py:56-301) called with the arguments a. The planner
\* status is not assigned.
UpdateTripPlan(a) ==
    LET state == get_planner_state(planner)
        detailed == [state EXCEPT
                        !.trip_details = WithTripDetails(@, a),
                        !.demographics = WithCounts(@, a)]
        peopled == WithTravelers(detailed, a)
    IN  /\ call' = [tool |-> "update_trip_plan", task_id |-> None, args |-> a]
        /\ planner' = [peopled EXCEPT !.preferences = WithBudget(@, a)]
        /\ ret' = Ret("success", None)
        /\ UNCHANGED <<visa, flights, accommodation, activities, pc, session_service>>

\* The longest travelers argument of a call.
MaxTravelerArgs == 2

Dec01_2024 == <<2024, 12, 1>>
Dec20_2024 == <<2024, 12, 20>>

\* Elements of a travelers argument: an adult and a child with an age, an
\* adult with nationality and origin, and an age for whoever is stored at the
\* position, without a role.
AdultAged == IntakeTraveler("adult", 40, None, None, None)
ChildAged == IntakeTraveler("child", 8, None, None, None)
NigerianFromAbuja == IntakeTraveler("adult", NoNumber, "Nigerian", "Abuja", None)
AgeOnly == IntakeTraveler(None, 41, None, None, None)
TravelerArgInputs == {AdultAged, ChildAged, NigerianFromAbuja, AgeOnly}

TravelersArgInputs ==
    UNION {[1..n -> TravelerArgInputs] : n \in 1..MaxTravelerArgs}

\* The calls of test_update_trip_plan.py:32-42 and 60-66, a second full call,
\* a call with nothing but a budget (one of them with a budget_mode outside
\* the three modes), and the calls with nothing but travelers.
BasicCall ==
    UpdateArgs("London", "Nigeria", Dec01_2024, Dec20_2024, 2, 2,
               << <<"Nigerian", "American">> >>, NoList, "luxury", NoNumber)
EconomyCall ==
    UpdateArgs("UK", "Lagos", Dec01, Dec20, 1, 0,
               << <<"Nigerian">> >>, NoList, "economy", NoNumber)
CountsCall ==
    UpdateArgs(None, "Nigeria", NoDate, NoDate, 1, 1,
               << <<"Nigerian">> >>, NoList, None, NoNumber)
BudgetCall == UpdateArgs(None, None, NoDate, NoDate, NoNumber, NoNumber, NoList, NoList, None, 5000)
MidRangeCall ==
    UpdateArgs(None, None, NoDate, NoDate, NoNumber, NoNumber, NoList, NoList, "mid-range", NoNumber)
TravelersCall(travelers) ==
    UpdateArgs(None, None, NoDate, NoDate, NoNumber, NoNumber, NoList, <<travelers>>, None, NoNumber)

UpdateArgsInputs ==
    {BasicCall, EconomyCall, CountsCall, BudgetCall, MidRangeCall}
    \cup {TravelersCall(travelers) : travelers \in TravelersArgInputs}

NoArgs == UpdateArgs(None, None, NoDate, NoDate, NoNumber, NoNumber, NoList, NoList, None, NoNumber)

InitIntake ==
    /\ planner = DefaultPlannerState
    /\ visa = EmptyVisa
    /\ flights = EmptyFlights
    /\ accommodation = EmptyAccommodation
    /\ activities = EmptyActivities
    /\ call = [tool |-> "none", task_id |-> None, args |-> NoArgs]
    /\ ret = Ret("none", None)
    /\ pc = "dispatcher_agent"
    /\ loc = NoLocals
    /\ session_service = "live"

update_trip_plan ==
    /\ pc = "dispatcher_agent"
    /\ \E a \in UpdateArgsInputs : UpdateTripPlan(a)
    /\ UNCHANGED loc

intake_mark_ready ==
    /\ pc = "dispatcher_agent"
    /\ mark_ready_for_planning

NextIntake ==
    \/ update_trip_plan
    \/ intake_mark_ready

SpecIntake == InitIntake /\ [][NextIntake]_vars

----------------------------------------------------------------------------
(* is_intake_complete over planner states, applied by                        *)
(* mark_ready_for_planning.                                                  *)

\* The longest travelers list of a planner state.
MaxIntakeTravelers == 2

\* Travelers with nationality and origin, with an origin airport code only,
\* and with a nationality only.
NigerianFromLagos == IntakeTraveler("adult", 40, "Nigerian", "Lagos", None)
FromAirport == IntakeTraveler("adult", NoNumber, None, None, "ABV")
AmericanChild == IntakeTraveler("child", 8, "American", None, None)
StoredTravelerInputs == {NigerianFromLagos, FromAirport, AmericanChild}

StoredTravelersInputs ==
    {<<>>} \cup UNION {[1..n -> StoredTravelerInputs] : n \in 1..MaxIntakeTravelers}

\* Trip-level (origin, origin_airport_code).
TripOriginInputs == {<<None, None>>, <<"Lagos", None>>, <<None, "LOS">>}

PlannerStateInputs ==
    {[trip_details |->
          [destination |-> destination, destination_airport_code |-> None,
           origin |-> trip_origin[1], origin_airport_code |-> trip_origin[2],
           start_date |-> start_date, end_date |-> end_date, flexible_dates |-> FALSE],
      demographics |->
          [adults |-> adults, children |-> children, seniors |-> seniors,
           nationality |-> nationality, travelers |-> travelers],
      preferences |-> [budget_mode |-> budget_mode, total_budget |-> NoNumber],
      status |-> "intake"] :
        destination \in {None, "", "UK"}, trip_origin \in TripOriginInputs,
        start_date \in {NoDate, Dec01}, end_date \in {NoDate, Dec20},
        adults \in {NoNumber, 0, 1}, children \in {NoNumber, 0, 1},
        seniors \in {NoNumber, 0, 1},
        nationality \in {NoList, << <<>> >>, << <<"Nigerian">> >>},
        travelers \in StoredTravelersInputs,
        budget_mode \in {None, "standard"}}

InitIntakeComplete ==
    /\ planner \in PlannerStateInputs
    /\ visa = EmptyVisa
    /\ flights = EmptyFlights
    /\ accommodation = EmptyAccommodation
    /\ activities = EmptyActivities
    /\ call = Call("none", None)
    /\ ret = Ret("none", None)
    /\ pc = "is_intake_complete"
    /\ loc = NoLocals
    /\ session_service = "live"

check_intake_complete ==
    /\ pc = "is_intake_complete"
    /\ mark_ready_for_planning

NextIntakeComplete == check_intake_complete

SpecIntakeComplete == InitIntakeComplete /\ [][NextIntakeComplete]_vars

----------------------------------------------------------------------------
(* apply_visa_search_results (tools.py:746-914). needs_visa is a list of at  *)
(* most one boolean: <<>> is None. The fee and the additional notes of a     *)
(* requirement are copied texts that no other step reads; they are left out. *)

\* The phrases apply_visa_search_results looks for that occur in a lowered
\* text of the model.
Phrases(text) ==
    CASE text = "visa required" -> {"visa required"}
      [] text = "no visa required for stays up to 6 months" ->
             {"no visa required", "visa required"}
      [] text = "nigerian citizens require a visa" -> {"require a visa"}
      [] text = "you do not require a visa" -> {"do not require a visa", "require a visa"}
      [] text = "apply for a standard visitor visa" -> {"standard visitor visa"}
      [] text = "tourist visa on arrival" -> {"tourist visa"}
      [] OTHER -> {}

\* text_corpus_parts of tools.py:805-810: the lowered summary and notes.
Corpus(result) ==
    (IF Truthy(result.summary) THEN <<Lower(result.summary)>> ELSE <<>>)
    \o (IF Truthy(result.notes) THEN <<Lower(result.notes)>> ELSE <<>>)

\* `phrase in corpus`
InCorpus(phrase, corpus) == \E k \in 1..Len(corpus) : phrase \in Phrases(corpus[k])

\* re.findall(r"\d+", hint) as integers, on the hints of the model.
HintNumbers(hint) ==
    CASE hint = "3-6 weeks" -> <<3, 6>>
      [] hint = "about 200 days" -> <<200>>
      [] hint = "0 days" -> <<0>>
      [] OTHER -> <<>>

\* max() of a non-empty list of integers.
MaxOf(numbers) ==
    CHOOSE n \in Range(numbers) : \A m \in Range(numbers) : m <= n

\* VisaRequirement(traveler_index=..., nationality=task.nationality)
VisaRequirement(traveler_index, nationality) ==
    [traveler_index |-> traveler_index, nationality |-> nationality,
     needs_visa |-> <<>>, visa_type |-> None, processing_time |-> None]

\* The heuristic that lets a later "visa required" override an earlier False.
NeedsVisaOverriding(needs_visa, corpus) ==
    IF InCorpus("no visa required", corpus) \/ InCorpus("do not require a visa", corpus)
    THEN <<FALSE>>
    ELSE IF InCorpus("visa required", corpus) \/ InCorpus("require a visa", corpus)
    THEN <<TRUE>>
    ELSE needs_visa

\* tools.py:812-819 (and again 836-842).
NeedsVisa(needs_visa, corpus) ==
    IF InCorpus("no visa required", corpus) \/ InCorpus("do not require a visa", corpus)
    THEN <<FALSE>>
    ELSE IF InCorpus("visa required", corpus) \/ InCorpus("require a visa", corpus)
    THEN (IF needs_visa = <<>> THEN <<TRUE>> ELSE needs_visa)
    ELSE needs_visa

\* tools.py:821-829 (and again 844-852).
VisaType(visa_type, corpus) ==
    IF InCorpus("standard visitor visa", corpus) THEN "Standard Visitor Visa"
    ELSE IF InCorpus("tourist visa", corpus) THEN "Tourist Visa"
    ELSE IF InCorpus("electronic travel authorization", corpus) THEN
        "Electronic Travel Authorization (ETA)"
    ELSE Or(visa_type, None)

\* The requirement after one result is applied to it (tools.py:804-858).
AppliedRequirement(req, result) ==
    [req EXCEPT
        !.needs_visa = NeedsVisa(NeedsVisa(@, Corpus(result)), Corpus(result)),
        !.visa_type = VisaType(VisaType(@, Corpus(result)), Corpus(result)),
        !.processing_time =
            IF Truthy(result.processing_time_hint) THEN result.processing_time_hint ELSE @]

\* Position in requirements of requirements_by_traveler[traveler_index], 0
\* when the traveler has none: of several requirements of one traveler the
\* dict keeps the last.
RequirementAt(requirements, traveler_index) ==
    LET at == {k \in 1..Len(requirements) : requirements[k].traveler_index = traveler_index}
    IN  IF at = {} THEN 0 ELSE CHOOSE k \in at : \A j \in at : j <= k

\* tasks_by_id.get(result.task_id): the last task of that id, <<>> when none.
VisaTaskOf(tasks, task_id) ==
    LET at == {k \in 1..Len(tasks) : tasks[k].task_id = task_id}
    IN  IF at = {} THEN <<>> ELSE <<tasks[CHOOSE k \in at : \A j \in at : j <= k]>>

\* The (result, task, traveler_index) triples the loops of tools.py:781-791
\* visit, in order.
AppliedPairs(v) ==
    Flatten([r \in 1..Len(v.search_results) |->
        LET task == VisaTaskOf(v.search_tasks, v.search_results[r].task_id)
        IN  IF task = <<>> THEN <<>>
            ELSE [k \in 1..Len(task[1].traveler_indexes) |->
                    [result |-> v.search_results[r], task |-> task[1],
                     traveler_index |-> task[1].traveler_indexes[k]]]])

RECURSIVE ApplyPairs(_, _, _)
\* visa_state.requirements after the triples from position k on.
ApplyPairs(requirements, pairs, k) ==
    IF k > Len(pairs) THEN requirements
    ELSE LET pair == pairs[k]
             at == RequirementAt(requirements, pair.traveler_index)
             known == IF at = 0
                      THEN Append(requirements,
                                  VisaRequirement(pair.traveler_index, pair.task.nationality))
                      ELSE requirements
             pos == IF at = 0 THEN Len(known) ELSE at
         IN  ApplyPairs([known EXCEPT ![pos] = AppliedRequirement(@, pair.result)],
                        pairs, k + 1)

\* processing_day_hints of tools.py:859-865.
ProcessingDayHints(pairs) ==
    LET hinted == SelectSeq(pairs, LAMBDA pair :
                      /\ Truthy(pair.result.processing_time_hint)
                      /\ HintNumbers(pair.result.processing_time_hint) # <<>>)
    IN  [k \in 1..Len(hinted) |-> MaxOf(HintNumbers(hinted[k].result.processing_time_hint))]

\* The clamp that lets a hint of 0 days through.
ClampDaysNoFloor(max_days) == IF max_days < 120 THEN max_days ELSE 120

\* max(1, min(max_days, 120)) of tools.py:889.
ClampDays(max_days) ==
    LET capped == IF max_days < 120 THEN max_days ELSE 120
    IN  IF capped > 1 THEN capped ELSE 1

\* apply_visa_search_results on the day today.
ApplyVisa(today) ==
    /\ call' = Call("apply_visa_search_results", None)
    /\ IF visa.search_results = <<>>
       THEN /\ ret' = Ret("skipped", "no_search_results")
            /\ UNCHANGED visa
       ELSE LET pairs == AppliedPairs(visa)
                processing_day_hints == ProcessingDayHints(pairs)
            IN  /\ visa' = [visa EXCEPT
                       !.requirements = ApplyPairs(@, pairs, 1),
                       !.earliest_safe_departure_date =
                           IF processing_day_hints # <<>>
                           THEN IsoFormat(FromIso(today)
                                          + ClampDays(MaxOf(processing_day_hints)))
                           ELSE @]
                /\ ret' = Ret("success", None)
    /\ UNCHANGED <<planner, flights, accommodation, activities, pc, loc, session_service>>

\* build_visa_search_prompt (tools.py:3267-3375): the task of one traveler,
\* appended to search_tasks. The arguments are the agent's.
BuildVisaSearchPrompt(traveler_index, nationality, destination) ==
    LET task == [task_id |-> "traveler_" \o ToString(traveler_index) \o "_"
                               \o Or(destination, "UNKNOWN DESTINATION"),
                 traveler_indexes |-> <<traveler_index>>,
                 destination_country |-> destination,
                 nationality |-> nationality]
    IN  /\ Len(visa.search_tasks) < MaxTasks
        /\ call' = Call("build_visa_search_prompt", None)
        /\ visa' = [visa EXCEPT !.search_tasks = Append(@, task)]
        /\ ret' = Ret("success", None)
        /\ UNCHANGED <<planner, flights, accommodation, activities, pc, loc, session_service>>

\* What the writer agent passes to record_visa_search_result: summary, notes
\* and processing_time_hint.
VisaPayload(summary, notes, processing_time_hint) ==
    [summary |-> summary, notes |-> notes, processing_time_hint |-> processing_time_hint]

VisaPayloadInputs ==
    { VisaPayload("Visa required", None, "varies"),
      VisaPayload("No visa required for stays up to 6 months", None, None),
      VisaPayload("Nigerian citizens require a visa", "Apply for a Standard Visitor Visa",
                  "3-6 weeks"),
      VisaPayload("Entry rules", "You do not require a visa", "about 200 days"),
      VisaPayload("Tourist visa on arrival", None, "0 days") }

InitVisaApply ==
    /\ planner = PlannerState(
                    TripDetails("UK", "LHR", "Lagos", None, Dec01, Dec20, FALSE),
                    <<Lagos, Abuja>>, "standard", "planning")
    /\ visa = EmptyVisa
    /\ flights = EmptyFlights
    /\ accommodation = EmptyAccommodation
    /\ activities = EmptyActivities
    /\ call = Call("none", None)
    /\ ret = Ret("none", None)
    /\ pc = "visa_agent"
    /\ loc = [run |-> "visa", today |-> Nov20]
    /\ session_service = "live"

visa_agent_builds_prompt ==
    /\ pc = "visa_agent"
    /\ \E i \in 1..Len(planner.demographics.travelers) :
          BuildVisaSearchPrompt(i - 1, planner.demographics.travelers[i].nationality,
                                planner.trip_details.destination)

visa_result_writer_agent ==
    /\ pc = "visa_agent"
    /\ \E task_id \in TaskIds(visa.search_tasks), payload \in VisaPayloadInputs :
          RecordVisa(task_id, payload.summary, payload.processing_time_hint, payload.notes)

visa_agent_applies ==
    /\ pc = "visa_agent"
    /\ ApplyVisa(loc.today)

\* date.today() moves on to a later day.
clock_advances ==
    /\ pc = "visa_agent"
    /\ \E later \in TodayInputs :
          /\ FromIso(later) > FromIso(loc.today)
          /\ loc' = [loc EXCEPT !.today = later]
    /\ UNCHANGED <<planner, visa, flights, accommodation, activities, call, ret, pc,
                   session_service>>

NextVisaApply ==
    \/ visa_agent_builds_prompt
    \/ visa_result_writer_agent
    \/ visa_agent_applies
    \/ clock_advances

SpecVisaApply == InitVisaApply /\ [][NextVisaApply]_vars

----------------------------------------------------------------------------
(* The driver invokes run_flight_pipeline and run_accommodation_pipeline on  *)
(* every planning turn (run.py:733-750). A behaviour follows the            *)
(* invocations of one of the two on a session, turn after turn: neither      *)
(* writes state of the other's domain, and run_accommodation_pipeline is     *)
(* followed on a session whose flight_agent derived no task.                 *)

Init ==
    /\ planner = PlannerState(
                     TripDetails("UK", "LHR", "Lagos", None, Dec01, Dec20, FALSE),
                     <<Lagos, Abuja>>, "standard", "planning")
    /\ visa = EmptyVisa
    /\ flights = EmptyFlights
    /\ accommodation = EmptyAccommodation
    /\ activities = EmptyActivities
    /\ call = NoCall
    /\ ret = NoRet
    /\ pc \in {"run_flight_pipeline", "run_accommodation_pipeline"}
    /\ loc = NoLocals
    /\ session_service \in {"live", "copy"}

Next ==
    \/ run_flight_pipeline
    \/ flight_agent
    \/ flight_agent_returns
    \/ flight_search_tool_agent
    \/ flight_search_agent
    \/ flight_search_agent_returns
    \/ ensure_flight_results
    \/ flight_apply_agent
    \/ flight_apply_agent_returns
    \/ flight_apply_tool_agent
    \/ flight_apply_tool_agent_returns
    \/ run_accommodation_pipeline
    \/ accommodation_agent
    \/ accommodation_agent_returns
    \/ accommodation_search_tool_agent
    \/ accommodation_search_agent
    \/ accommodation_search_agent_returns
    \/ ensure_accommodation_results
    \/ accommodation_apply_agent
    \/ accommodation_apply_agent_returns
    \/ accommodation_apply_tool_agent
    \/ accommodation_apply_tool_agent_returns

Spec == Init /\ [][Next]_vars

\* The same pipelines on the session of a traveler on their own: a stay for
\* one guest passes the capacity filter.
InitSolo ==
    /\ planner = PlannerState(
                     TripDetails("UK", "LHR", "Lagos", None, Dec01, Dec20, FALSE),
                     <<Lagos>>, "standard", "planning")
    /\ visa = EmptyVisa
    /\ flights = EmptyFlights
    /\ accommodation = EmptyAccommodation
    /\ activities = EmptyActivities
    /\ call = NoCall
    /\ ret = NoRet
    /\ pc \in {"run_flight_pipeline", "run_accommodation_pipeline"}
    /\ loc = NoLocals
    /\ session_service \in {"live", "copy"}

SpecSolo == InitSolo /\ [][Next]_vars

\* The case the guard of run.py:1333-1341 is written for: the run of
\* flight_apply_agent leaves the session without its search_results ("an
\* upstream agent accidentally dropped search_results"). The runner is not
\* code of the repository; the driver with this step added is the
\* specification the guard is checked under.
flight_apply_agent_drops_results ==
    /\ pc = "flight_apply_agent"
    /\ flights.search_results # <<>>
    /\ flights' = [flights EXCEPT !.search_results = <<>>]
    /\ call' = NoCall
    /\ ret' = NoRet
    /\ UNCHANGED <<planner, visa, accommodation, activities, pc, loc, session_service>>

NextRestore ==
    \/ Next
    \/ flight_apply_agent_drops_results

SpecRestore == Init /\ [][NextRestore]_vars

----------------------------------------------------------------------------
(* One planning turn of main (run.py:685-769): the visa agent and            *)
(* run_visa_search_pipeline, then run_flight_pipeline,                       *)
(* run_accommodation_pipeline, run_activity_pipeline and run_trip_summary,   *)
(* each awaited before the next call. The flight and accommodation pipelines *)
(* are the actions of the driver above. In the activity pipeline the         *)
(* itinerary synthesis, which writes activities.day_plan only, is the        *)
(* subject of SpecItinerary and is passed over here. The agent of the visa   *)
(* stage calls build_visa_search_prompt at most once per traveler, and the    *)
(* agents of the later stages call their derive tool at most once and their  *)
(* record tool at most once per task.                                        *)

\* The locals of main while it is between two pipelines.
MainLocals == [run |-> "main"]

\* What visa_result_writer_agent passes in a turn.
TurnVisaPayloadInputs ==
    { VisaPayload("Nigerian citizens require a visa", "Apply for a Standard Visitor Visa",
                  "3-6 weeks") }

\* A flight option that carries the dates of its legs.
DatedFlightOption(option_type, price, outbound_arrival, return_departure) ==
    [FlightOption(option_type, price) EXCEPT !.outbound_arrival = outbound_arrival,
                                            !.return_departure = return_departure]

\* What flight_search_agent passes in a turn.
TurnFlightPayloadInputs ==
    { Payload("Options found", <<DatedFlightOption("balanced", 500, Dec02, Dec05)>>,
              "balanced"),
      Payload("Options found", <<FlightOption("balanced", 500)>>, "balanced") }

InitTurn ==
    /\ planner = PlannerState(
                    TripDetails("UK", "LHR", "Lagos", None, Dec01, Dec20, FALSE),
                    <<Lagos>>, "standard", "planning")
    /\ visa = EmptyVisa
    /\ flights = EmptyFlights
    /\ accommodation = EmptyAccommodation
    /\ activities = EmptyActivities
    /\ call = NoCall
    /\ ret = NoRet
    /\ pc = "main"
    /\ loc = MainLocals
    /\ session_service \in {"live", "copy"}

\* main after the dispatcher's reply, status "planning" (run.py:685-695).
main_planning_turn ==
    /\ pc = "main"
    /\ planner.status = "planning"
    /\ pc' = IF visa.search_tasks = <<>> /\ visa.search_results = <<>>
             THEN "visa_agent" ELSE "run_flight_pipeline"
    /\ loc' = MainLocals
    /\ call' = NoCall
    /\ ret' = NoRet
    /\ UNCHANGED <<planner, visa, flights, accommodation, activities, session_service>>

\* visa_agent in phase 1 builds the prompt of a traveler that has none.
visa_agent_builds_prompt_once ==
    /\ pc = "visa_agent"
    /\ \E i \in 1..Len(planner.demographics.travelers) :
          /\ \A k \in 1..Len(visa.search_tasks) :
                (i - 1) \notin Range(visa.search_tasks[k].traveler_indexes)
          /\ BuildVisaSearchPrompt(i - 1, planner.demographics.travelers[i].nationality,
                                   planner.trip_details.destination)

\* visa_agent in phase 1 calls apply_visa_search_results.
visa_agent_applies_early ==
    /\ pc = "visa_agent"
    /\ \E today \in TodayInputs : ApplyVisa(today)

\* visa_agent gives its final response; run_visa_search_pipeline loads the
\* pending tasks (run.py:719-729, 796-809).
visa_agent_returns ==
    /\ pc = "visa_agent"
    /\ pc' = "visa_result_writer_agent"
    /\ loc' = [run |-> "visa", pending_tasks |-> PendingTasks(visa), task_index |-> 1]
    /\ call' = NoCall
    /\ ret' = NoRet
    /\ UNCHANGED <<planner, visa, flights, accommodation, activities, session_service>>

\* visa_result_writer_agent records a result for the task of the loop
\* (run.py:873-899).
visa_result_writer_agent_records ==
    /\ pc = "visa_result_writer_agent"
    /\ loc.task_index <= Len(loc.pending_tasks)
    /\ ~HasResult(visa.search_results, loc.pending_tasks[loc.task_index].task_id)
    /\ \E payload \in TurnVisaPayloadInputs :
          RecordVisa(loc.pending_tasks[loc.task_index].task_id, payload.summary,
                     payload.processing_time_hint, payload.notes)

\* The loop `for idx, task in enumerate(pending_tasks)` moves on.
visa_result_writer_agent_returns ==
    /\ pc = "visa_result_writer_agent"
    /\ loc.task_index <= Len(loc.pending_tasks)
    /\ loc' = [loc EXCEPT !.task_index = @ + 1]
    /\ call' = NoCall
    /\ ret' = NoRet
    /\ UNCHANGED <<planner, visa, flights, accommodation, activities, pc, session_service>>

\* Phase 3 of run_visa_search_pipeline starts (run.py:901-908).
visa_search_done ==
    /\ pc = "visa_result_writer_agent"
    /\ loc.task_index > Len(loc.pending_tasks)
    /\ pc' = "visa_apply"
    /\ loc' = MainLocals
    /\ call' = NoCall
    /\ ret' = NoRet
    /\ UNCHANGED <<planner, visa, flights, accommodation, activities, session_service>>

\* visa_agent, asked to apply, calls apply_visa_search_results.
visa_apply ==
    /\ pc = "visa_apply"
    /\ \E today \in TodayInputs : ApplyVisa(today)

\* run_visa_search_pipeline returns and main calls run_flight_pipeline
\* (run.py:924-940, 731-739).
visa_apply_returns ==
    /\ pc = "visa_apply"
    /\ pc' = "run_flight_pipeline"
    /\ loc' = MainLocals
    /\ call' = NoCall
    /\ ret' = NoRet
    /\ UNCHANGED <<planner, visa, flights, accommodation, activities, session_service>>

\* run_flight_pipeline as main calls it.
main_run_flight_pipeline == loc = MainLocals /\ run_flight_pipeline

\* flight_agent with one call of its tool.
flight_agent_in_turn ==
    /\ pc = "flight_agent"
    /\ flights.search_tasks = <<>>
    /\ derive_flight_search_tasks

\* flight_search_agent with the payloads of a turn.
flight_search_agent_in_turn ==
    /\ pc = "flight_search_agent"
    /\ \E task_id \in TaskIds(flights.search_tasks), payload \in TurnFlightPayloadInputs :
          /\ ~HasResult(flights.search_results, task_id)
          /\ RecordFlight(task_id, payload.summary, payload.options,
                          payload.chosen_option_type)

\* run_flight_pipeline has returned; main calls run_accommodation_pipeline
\* (run.py:741-749).
main_awaits_flight_pipeline ==
    /\ pc = "run_flight_pipeline"
    /\ loc = NoLocals
    /\ pc' = "run_accommodation_pipeline"
    /\ loc' = MainLocals
    /\ call' = NoCall
    /\ ret' = NoRet
    /\ UNCHANGED <<planner, visa, flights, accommodation, activities, session_service>>

\* run_accommodation_pipeline as main calls it.
main_run_accommodation_pipeline == loc = MainLocals /\ run_accommodation_pipeline

\* A main that goes back to the flight pipeline after the accommodation
\* pipeline.
main_reruns_flight_pipeline ==
    /\ pc = "run_accommodation_pipeline"
    /\ loc = NoLocals
    /\ pc' = "run_flight_pipeline"
    /\ loc' = MainLocals
    /\ call' = NoCall
    /\ ret' = NoRet
    /\ UNCHANGED <<planner, visa, flights, accommodation, activities, session_service>>

\* accommodation_agent with one call of its tool.
accommodation_agent_in_turn ==
    /\ pc = "accommodation_agent"
    /\ accommodation.search_tasks = <<>>
    /\ derive_accommodation_search_tasks

\* accommodation_search_agent with one record per task.
accommodation_search_agent_in_turn ==
    /\ pc = "accommodation_search_agent"
    /\ \E task_id \in TaskIds(accommodation.search_tasks),
          payload \in AccommodationPayloadInputs :
          /\ ~HasResult(accommodation.search_results, task_id)
          /\ RecordAccommodation(task_id, payload.summary, payload.options,
                                 payload.chosen_option_type)

\* run_accommodation_pipeline has returned; main calls run_activity_pipeline
\* (run.py:751-759).
main_awaits_accommodation_pipeline ==
    /\ pc = "run_accommodation_pipeline"
    /\ loc = NoLocals
    /\ pc' = "run_activity_pipeline"
    /\ loc' = MainLocals
    /\ call' = NoCall
    /\ ret' = NoRet
    /\ UNCHANGED <<planner, visa, flights, accommodation, activities, session_service>>

\* Phase 2 of run_activity_pipeline, or its end (run.py:2133-2134).
EnterActivitySearch ==
    pc' = IF activities.search_tasks # <<>> /\ activities.search_results = <<>>
          THEN "activity_result_writer_agent" ELSE "run_trip_summary"

\* run_activity_pipeline up to its first agent (run.py:2078-2094).
run_activity_pipeline ==
    /\ pc = "run_activity_pipeline"
    /\ IF activities.search_tasks = <<>> THEN pc' = "activity_agent" ELSE EnterActivitySearch
    /\ call' = NoCall
    /\ ret' = NoRet
    /\ UNCHANGED <<planner, visa, flights, accommodation, activities, loc, session_service>>

\* activity_agent calls its one tool.
activity_agent ==
    /\ pc = "activity_agent"
    /\ activities.search_tasks = <<>>
    /\ derive_activity_search_tasks

\* activity_agent gives its final response (run.py:2116-2134).
activity_agent_returns ==
    /\ pc = "activity_agent"
    /\ EnterActivitySearch
    /\ call' = NoCall
    /\ ret' = NoRet
    /\ UNCHANGED <<planner, visa, flights, accommodation, activities, loc, session_service>>

\* activity_result_writer_agent calls its one tool.
activity_result_writer_agent ==
    /\ pc = "activity_result_writer_agent"
    /\ \E task_id \in TaskIds(activities.search_tasks) :
          /\ ~HasResult(activities.search_results, task_id)
          /\ RecordActivity(task_id, "Things to do")

\* The search loop is over, run_activity_pipeline returns and main calls
\* run_trip_summary (run.py:761-769).
activity_result_writer_agent_returns ==
    /\ pc = "activity_result_writer_agent"
    /\ pc' = "run_trip_summary"
    /\ call' = NoCall
    /\ ret' = NoRet
    /\ UNCHANGED <<planner, visa, flights, accommodation, activities, loc, session_service>>

\* run_trip_summary reads the session and prints (run.py:91-400); main waits
\* for the next line of the user.
run_trip_summary ==
    /\ pc = "run_trip_summary"
    /\ pc' = "input"
    /\ call' = NoCall
    /\ ret' = NoRet
    /\ UNCHANGED <<planner, visa, flights, accommodation, activities, loc, session_service>>

NextTurn ==
    \/ main_planning_turn
    \/ visa_agent_builds_prompt_once
    \/ visa_agent_applies_early
    \/ visa_agent_returns
    \/ visa_result_writer_agent_records
    \/ visa_result_writer_agent_returns
    \/ visa_search_done
    \/ visa_apply
    \/ visa_apply_returns
    \/ main_run_flight_pipeline
    \/ flight_agent_in_turn
    \/ flight_agent_returns
    \/ flight_search_tool_agent
    \/ flight_search_agent_in_turn
    \/ flight_search_agent_returns
    \/ ensure_flight_results
    \/ flight_apply_agent
    \/ flight_apply_agent_returns
    \/ flight_apply_tool_agent
    \/ flight_apply_tool_agent_returns
    \/ main_awaits_flight_pipeline
    \/ main_run_accommodation_pipeline
    \/ accommodation_agent_in_turn
    \/ accommodation_agent_returns
    \/ accommodation_search_tool_agent
    \/ accommodation_search_agent_in_turn
    \/ accommodation_search_agent_returns
    \/ ensure_accommodation_results
    \/ accommodation_apply_agent
    \/ accommodation_apply_agent_returns
    \/ accommodation_apply_tool_agent
    \/ accommodation_apply_tool_agent_returns
    \/ main_awaits_accommodation_pipeline
    \/ run_activity_pipeline
    \/ activity_agent
    \/ activity_agent_returns
    \/ activity_result_writer_agent
    \/ activity_result_writer_agent_returns
    \/ run_trip_summary

SpecTurn == InitTurn /\ [][NextTurn]_vars

----------------------------------------------------------------------------
(* Properties of the tools.                                                 *)

\* The session state apart from the record of the last tool call.
session == <<planner, visa, flights, accommodation, activities>>

RecordTools ==
    [record_visa_search_result |-> "visa",
     record_flight_search_result |-> "flights",
     record_accommodation_search_result |-> "accommodation",
     record_activity_search_result |-> "activities"]

SearchTasksOf(domain) ==
    CASE domain = "visa" -> visa.search_tasks
      [] domain = "flights" -> flights.search_tasks
      [] domain = "accommodation" -> accommodation.search_tasks
      [] domain = "activities" -> activities.search_tasks

\* C1: a record_*_search_result call whose task_id is the task_id of no entry
\* of that domain's search_tasks returns status "error" with reason
\* "unknown_task_id" and leaves the whole session state unchanged.
C1_UnknownTaskIdRejected ==
    [][\A tool \in DOMAIN RecordTools :
          (call'.tool = tool
             /\ call'.task_id \notin TaskIds(SearchTasksOf(RecordTools[tool])))
          => (ret' = Ret("error", "unknown_task_id") /\ UNCHANGED session)]_vars

\* An accommodation result is on record and a later call with an id that
\* names no accommodation task was turned down.
C1_Witness ==
    /\ call.tool = "record_accommodation_search_result"
    /\ call.task_id \notin TaskIds(accommodation.search_tasks)
    /\ accommodation.search_results # <<>>
    /\ ret = Ret("error", "unknown_task_id")

\* The (origin, destination) keys of the travelers: the destination is the
\* trip's, the origin is the traveler's own origin_airport_code or origin when
\* set and the trip-level origin otherwise.
OriginKeys(p) ==
    {OriginCity(p, p.demographics.travelers[i]) : i \in 1..Len(p.demographics.travelers)}

\* C4: a successful derive_flight_search_tasks on a session without flight
\* tasks, for N >= 1 travelers with M distinct (origin, destination) keys,
\* leaves exactly M tasks whose traveler_indexes are pairwise disjoint and
\* together are {0..N-1}.
C4_GroupingPartitionsTravelers ==
    [][(call'.tool = "derive_flight_search_tasks" /\ ret'.status = "success"
          /\ flights.search_tasks = <<>>)
       => LET tasks == flights'.search_tasks
              n == Len(planner.demographics.travelers)
          IN  /\ n >= 1
              /\ Len(tasks) = Cardinality(OriginKeys(planner))
              /\ \A i, j \in 1..Len(tasks) :
                    i # j => Range(tasks[i].traveler_indexes)
                               \cap Range(tasks[j].traveler_indexes) = {}
              /\ \A i \in 1..Len(tasks) :
                    Cardinality(Range(tasks[i].traveler_indexes))
                      = Len(tasks[i].traveler_indexes)
              /\ UNION {Range(tasks[i].traveler_indexes) : i \in 1..Len(tasks)}
                    = 0..(n - 1)]_vars

\* Three travelers from two origins: the first and the third share a task.
C4_Witness ==
    /\ call.tool = "derive_flight_search_tasks"
    /\ ret.status = "success"
    /\ Len(planner.demographics.travelers) = 3
    /\ Len(flights.search_tasks) = 2
    /\ flights.search_tasks[1].traveler_indexes = <<0, 2>>
    /\ flights.search_tasks[2].traveler_indexes = <<1>>

\* A well-formed ISO date text of the model.
IsDate(d) == Len(d) = 3 /\ d[2] \in 1..12 /\ d[3] \in 1..DaysInMonth(d[1], d[2])

\* C10: with a safe departure date strictly after the original departure
\* and strictly before the original return, and dates that are not flexible,
\* every derived task recommends the safe date as departure and the original
\* return date as return.
C10_FixedWindowKeepsReturn ==
    LET td == planner.trip_details
        safe_date == visa.earliest_safe_departure_date
    IN  (/\ IsDate(td.start_date) /\ IsDate(td.end_date) /\ IsDate(safe_date)
         /\ DateLess(td.start_date, safe_date)
         /\ DateLess(safe_date, td.end_date)
         /\ ~td.flexible_dates)
        => \A i \in 1..Len(flights.search_tasks) :
              /\ flights.search_tasks[i].recommended_departure_date = safe_date
              /\ flights.search_tasks[i].recommended_return_date = td.end_date

\* The example of the specification: 2025-12-01 / 2025-12-20 with safe date
\* 2025-12-05 and fixed dates gives 2025-12-05 / 2025-12-20.
C10_Witness ==
    /\ planner.trip_details.start_date = Dec01
    /\ planner.trip_details.end_date = Dec20
    /\ visa.earliest_safe_departure_date = Dec05
    /\ ~planner.trip_details.flexible_dates
    /\ flights.search_tasks # <<>>
    /\ flights.search_tasks[1].original_departure_date = Dec01
    /\ flights.search_tasks[1].recommended_departure_date = Dec05
    /\ flights.search_tasks[1].recommended_return_date = Dec20

\* The date n days after the date d.
PlusDays(d, n) == IsoFormat(FromIso(d) + n)

\* Original return minus original departure, in days.
TripLength(td) == FromIso(td.end_date) - FromIso(td.start_date)

\* The safe date is after the original departure and on or after the
\* original return.
SafeDatePastReturn ==
    LET td == planner.trip_details
        safe_date == visa.earliest_safe_departure_date
    IN  /\ IsDate(td.start_date) /\ IsDate(td.end_date) /\ IsDate(safe_date)
        /\ DateLess(td.start_date, safe_date)
        /\ ~DateLess(safe_date, td.end_date)

\* C11 as stated: with a safe departure date after the original departure
\* and on or after the original return, every derived task recommends as
\* return the safe date plus max(original trip length, 3 days).
C11_ReturnExtendedByMax ==
    LET td == planner.trip_details
        length == TripLength(td)
    IN  SafeDatePastReturn
        => \A i \in 1..Len(flights.search_tasks) :
              flights.search_tasks[i].recommended_return_date =
                  PlusDays(visa.earliest_safe_departure_date,
                           IF length > 3 THEN length ELSE 3)

\* C11 as amended: in that case every derived task recommends as return the
\* safe date plus the original trip length when that length is at least one
\* day, and the safe date plus 3 days when the length is zero or negative.
C11_ReturnExtendedByLengthOrThree ==
    LET td == planner.trip_details
        length == TripLength(td)
    IN  SafeDatePastReturn
        => \A i \in 1..Len(flights.search_tasks) :
              flights.search_tasks[i].recommended_return_date =
                  PlusDays(visa.earliest_safe_departure_date,
                           IF length >= 1 THEN length ELSE 3)

\* The example of the specification: 2025-12-01 / 2025-12-20 with safe date
\* 2025-12-25 gives the return date 2026-01-13.
C11_Witness ==
    /\ planner.trip_details.start_date = Dec01
    /\ planner.trip_details.end_date = Dec20
    /\ visa.earliest_safe_departure_date = Dec25
    /\ flights.search_tasks # <<>>
    /\ flights.search_tasks[1].recommended_departure_date = Dec25
    /\ flights.search_tasks[1].recommended_return_date = <<2026, 1, 13>>

\* The safe date is a date strictly later than the original departure date.
SafeDateLater ==
    /\ IsDate(planner.trip_details.start_date)
    /\ IsDate(visa.earliest_safe_departure_date)
    /\ DateLess(planner.trip_details.start_date, visa.earliest_safe_departure_date)

\* C12: every derived task recommends the safe date as departure and carries
\* a visa_timeline_reason when the safe date is strictly later than the
\* original departure; otherwise its recommended departure and return are
\* the original dates and it carries no visa_timeline_reason.
C12_ShiftExactlyWhenSafeDateLater ==
    \A i \in 1..Len(flights.search_tasks) :
        LET task == flights.search_tasks[i]
        IN  IF SafeDateLater
            THEN /\ task.recommended_departure_date = visa.earliest_safe_departure_date
                 /\ task.visa_timeline_reason # NoReason
            ELSE /\ task.recommended_departure_date = planner.trip_details.start_date
                 /\ task.recommended_return_date = planner.trip_details.end_date
                 /\ task.visa_timeline_reason = NoReason

\* A task derived with the safe date on the day of departure: nothing moved.
C12_Witness ==
    /\ planner.trip_details.start_date = Dec01
    /\ planner.trip_details.end_date = Dec20
    /\ visa.earliest_safe_departure_date = Dec01
    /\ flights.search_tasks # <<>>
    /\ flights.search_tasks[1].recommended_departure_date = Dec01
    /\ flights.search_tasks[1].recommended_return_date = Dec20
    /\ flights.search_tasks[1].visa_timeline_reason = NoReason

\* C13: with a safe departure date strictly after the original departure
\* and strictly before the original return, and flexible dates, every
\* derived task recommends as return the original return shifted by (safe
\* date minus original departure): the recommended trip is as long as the
\* original one.
C13_FlexibleWindowKeepsLength ==
    LET td == planner.trip_details
        safe_date == visa.earliest_safe_departure_date
    IN  (/\ IsDate(td.start_date) /\ IsDate(td.end_date) /\ IsDate(safe_date)
         /\ DateLess(td.start_date, safe_date)
         /\ DateLess(safe_date, td.end_date)
         /\ td.flexible_dates)
        => \A i \in 1..Len(flights.search_tasks) :
              LET task == flights.search_tasks[i]
              IN  /\ task.recommended_return_date =
                        PlusDays(td.end_date, FromIso(safe_date) - FromIso(td.start_date))
                  /\ FromIso(task.recommended_return_date)
                        - FromIso(task.recommended_departure_date) = TripLength(td)

\* 2025-12-01 / 2025-12-20 with safe date 2025-12-05 and flexible dates
\* gives 2025-12-05 / 2025-12-24.
C13_Witness ==
    /\ planner.trip_details.start_date = Dec01
    /\ planner.trip_details.end_date = Dec20
    /\ visa.earliest_safe_departure_date = Dec05
    /\ planner.trip_details.flexible_dates
    /\ flights.search_tasks # <<>>
    /\ flights.search_tasks[1].recommended_departure_date = Dec05
    /\ flights.search_tasks[1].recommended_return_date = <<2025, 12, 24>>

\* The position of the first option of the given type, 0 when there is none
\* or no type is given.
FirstOfType(options, option_type) ==
    IF Truthy(option_type) /\ \E i \in 1..Len(options) : options[i].option_type = option_type
    THEN CHOOSE i \in 1..Len(options) :
            /\ options[i].option_type = option_type
            /\ \A j \in 1..(i - 1) : options[j].option_type # option_type
    ELSE 0

\* The options without the one at position i.
WithoutOption(options, i) == SubSeq(options, 1, i - 1) \o SubSeq(options, i + 1, Len(options))

\* How often an option occurs in a list.
Occurrences(options, opt) == Cardinality({i \in 1..Len(options) : options[i] = opt})

\* The partition C7 asks of one choice built from one result.
PartitionedAsSpecified(choice, result) ==
    LET first == FirstOfType(result.options, result.chosen_option_type)
        picked == IF first = 0 THEN 1 ELSE first
        together == choice.chosen_option \o choice.other_options
    IN  result.options # <<>> =>
           /\ choice.chosen_option = <<result.options[picked]>>
           /\ choice.other_options = WithoutOption(result.options, picked)
           /\ first = 0 => choice.other_options = Tail(result.options)
           /\ \A opt \in Range(result.options) \cup Range(together) :
                  Occurrences(together, opt) = Occurrences(result.options, opt)

\* C7: every choice that apply_flight_search_results or
\* apply_accommodation_search_results builds from a result with options has
\* the first option of the result's chosen_option_type as chosen_option and
\* the remaining options in order as other_options; with no type or no match
\* it has options[0] and options[1:]; chosen and others together hold each
\* option of the result exactly once.
C7_ChoicePartition ==
    [][/\ (call'.tool = "apply_flight_search_results" /\ ret'.status = "success")
          => \A k \in 1..Len(flights'.traveler_flights) :
                PartitionedAsSpecified(
                    flights'.traveler_flights[k],
                    ResultsByTask(flights'.search_results,
                                  flights'.traveler_flights[k].task_id))
       /\ (call'.tool = "apply_accommodation_search_results" /\ ret'.status = "success")
          => \A k \in 1..Len(accommodation'.traveler_accommodations) :
                PartitionedAsSpecified(
                    accommodation'.traveler_accommodations[k],
                    ResultsByTask(accommodation'.search_results,
                                  accommodation'.traveler_accommodations[k].task_id))]_vars

\* A flight choice whose result named "balanced" and held two balanced
\* options after a cheaper one: the first of them is chosen, the second stays
\* among the others.
C7_Witness ==
    /\ call.tool = "apply_flight_search_results"
    /\ \E k \in 1..Len(flights.traveler_flights) :
          LET choice == flights.traveler_flights[k]
          IN  /\ choice.chosen_option = <<FlightOption("balanced", 500)>>
              /\ choice.other_options =
                    <<FlightOption("cheapest", 400), FlightOption("balanced", 650)>>

\* The pairs (traveler index, position of a task) C8 speaks of: the traveler
\* is below n, is named by the task, and the task has a result.
CoveredPairs(n, tasks, results) ==
    {pair \in (0..(n - 1)) \X (1..Len(tasks)) :
        /\ pair[1] \in Range(tasks[pair[2]].traveler_indexes)
        /\ tasks[pair[2]].task_id \in TaskIds(results)}

\* The positions of the choices recorded for one traveler and one task.
ChoicesFor(choices, traveler_index, task_id) ==
    {k \in 1..Len(choices) :
        choices[k].traveler_index = traveler_index /\ choices[k].task_id = task_id}

\* C8: after a successful apply_flight_search_results, traveler_flights holds
\* exactly one choice for every pair of a traveler index below the number of
\* travelers and a task that names the traveler and has a result, and holds
\* nothing else.
C8_OneChoicePerPair ==
    [][(call'.tool = "apply_flight_search_results" /\ ret'.status = "success")
       => LET tasks == flights'.search_tasks
              choices == flights'.traveler_flights
              pairs == CoveredPairs(Len(planner'.demographics.travelers), tasks,
                                    flights'.search_results)
          IN  /\ \A pair \in pairs :
                    Cardinality(ChoicesFor(choices, pair[1], tasks[pair[2]].task_id)) = 1
              /\ Len(choices) = Cardinality(pairs)]_vars

\* Two tasks name traveler 0 and both have a result: the traveler has two
\* choices, one per task.
C8_Witness ==
    /\ call.tool = "apply_flight_search_results"
    /\ Len(flights.search_tasks) >= 2
    /\ Len(flights.traveler_flights) = 2
    /\ flights.traveler_flights[1].traveler_index = 0
    /\ flights.traveler_flights[2].traveler_index = 0
    /\ flights.traveler_flights[1].task_id # flights.traveler_flights[2].task_id

\* C9: the choice list an apply tool stores is the one computed from the
\* travelers, search_tasks and search_results alone, whatever list was stored
\* before, and applying once more changes neither the list nor
\* overall_summary.
C9_ApplyReplacesWholesale ==
    [][/\ (call'.tool = "apply_flight_search_results" /\ ret'.status = "success")
          => /\ flights'.traveler_flights =
                   TravelerFlights(planner, [flights EXCEPT !.traveler_flights = <<>>])
             /\ AppliedFlights(planner', flights') = flights'
       /\ (call'.tool = "apply_accommodation_search_results" /\ ret'.status = "success")
          => /\ accommodation'.traveler_accommodations =
                   TravelerAccommodations(
                       planner, [accommodation EXCEPT !.traveler_accommodations = <<>>])
             /\ AppliedAccommodation(planner', accommodation') = accommodation']_vars

\* An apply ran over two results of one task: the single choice stored is
\* the one of the later result, not a list grown by it.
C9_Witness ==
    /\ call.tool = "apply_flight_search_results"
    /\ ret.status = "success"
    /\ Len(flights.search_results) = 2
    /\ flights.search_results[1].task_id = flights.search_results[2].task_id
    /\ flights.search_results[1].summary # flights.search_results[2].summary
    /\ Len(flights.traveler_flights) = 1
    /\ flights.traveler_flights[1].summary = flights.search_results[2].summary

----------------------------------------------------------------------------
(* Properties of the pipeline drivers.                                      *)

\* C2: in every reachable state, every entry of a domain's search_results
\* carries the task_id of some entry of the same domain's search_tasks: no
\* record call, stub, repair, fallback or apply creates an orphan result.
C2_NoOrphanResult ==
    /\ TaskIds(visa.search_results) \subseteq TaskIds(visa.search_tasks)
    /\ TaskIds(flights.search_results) \subseteq TaskIds(flights.search_tasks)
    /\ TaskIds(accommodation.search_results) \subseteq TaskIds(accommodation.search_tasks)
    /\ TaskIds(activities.search_results) \subseteq TaskIds(activities.search_tasks)

IsFlightStub(result) == result.notes = FlightStubNotes

\* The stub fallback has filed a stub next to a result an agent recorded, and
\* the apply stage has joined them to the travelers.
C2_Witness ==
    /\ \E i \in 1..Len(flights.search_results) : IsFlightStub(flights.search_results[i])
    /\ \E i \in 1..Len(flights.search_results) : ~IsFlightStub(flights.search_results[i])
    /\ flights.traveler_flights # <<>>

FlightSearchPositions ==
    {"flight_search_tool_agent", "flight_search_agent", "flight_apply_agent",
     "flight_apply_tool_agent"}

\* C3: an invocation of run_flight_pipeline that finds search_tasks non-empty
\* does not run flight_agent, no step of it calls derive_flight_search_tasks,
\* and every step of it, the return included, leaves search_tasks the list
\* the invocation loaded at its start.
C3_NoRederivation ==
    [][ /\ (pc = "run_flight_pipeline" /\ flights.search_tasks # <<>>)
           => /\ pc' # "flight_agent"
              /\ flights'.search_tasks = flights.search_tasks
        /\ (pc \in FlightSearchPositions /\ ~loc.ran_flight_agent)
           => /\ loc.flight_state.search_tasks # <<>>
              /\ pc' # "flight_agent"
              /\ call'.tool # "derive_flight_search_tasks"
              /\ flights'.search_tasks = loc.flight_state.search_tasks ]_vars

\* An invocation that found tasks and no results has run the search phase
\* again without flight_agent and stands at the apply stage.
C3_Witness ==
    /\ pc = "flight_apply_agent"
    /\ ~loc.ran_flight_agent
    /\ Len(flights.search_tasks) >= 2

\* C5: when stage 1 returned an error result or a result without usable
\* options for a pending task, the loop still went through every pending
\* task, and at the apply stage that task has a FlightSearchResult in the
\* session state.
C5_FailedTaskStillGetsResult ==
    pc = "flight_apply_agent"
        => /\ loc.task_index = Len(loc.pending_tasks) + 1
           /\ \A i \in 1..Len(loc.failed_task_ids) :
                 HasResult(flights.search_results, loc.failed_task_ids[i])

FlightStubsOf(task_id) ==
    {i \in 1..Len(flights.search_results) :
        /\ flights.search_results[i].task_id = task_id
        /\ IsFlightStub(flights.search_results[i])}

IsAccommodationStub(result) ==
    \E i \in 1..Len(accommodation.search_tasks) :
        result.summary = AccommodationFallbackSummary(accommodation.search_tasks[i],
                                                      NotFetched)

AccommodationStubsOf(task_id) ==
    {i \in 1..Len(accommodation.search_results) :
        /\ accommodation.search_results[i].task_id = task_id
        /\ IsAccommodationStub(accommodation.search_results[i])}

\* C6: at the apply stage of either pipeline every id of
\* summary_attempted_task_ids has a result in the session state the apply
\* tool reads; an id has at most one stub, and a stub only when no other
\* result carries the id.
C6_AttemptedTasksHaveResults ==
    /\ pc = "flight_apply_agent"
          => /\ \A i \in 1..Len(loc.summary_attempted_task_ids) :
                   HasResult(flights.search_results, loc.summary_attempted_task_ids[i])
             /\ \A task_id \in TaskIds(flights.search_results) :
                   LET stubs == FlightStubsOf(task_id)
                   IN  stubs # {} =>
                          /\ Cardinality(stubs) = 1
                          /\ Cardinality({i \in 1..Len(flights.search_results) :
                                 flights.search_results[i].task_id = task_id}) = 1
    /\ pc = "accommodation_apply_agent"
          => /\ \A i \in 1..Len(loc.summary_attempted_task_ids) :
                   HasResult(accommodation.search_results,
                             loc.summary_attempted_task_ids[i])
             /\ \A task_id \in TaskIds(accommodation.search_results) :
                   LET stubs == AccommodationStubsOf(task_id)
                   IN  stubs # {} =>
                          /\ Cardinality(stubs) = 1
                          /\ Cardinality({i \in 1..Len(accommodation.search_results) :
                                 accommodation.search_results[i].task_id = task_id}) = 1

----------------------------------------------------------------------------
(* Properties of the itinerary acceptance filter.                            *)

\* The synthesis is between seeding the seen sets and writing day_plan back;
\* until then activities.day_plan holds the items that existed before.
InSynthesis == pc \in {"day_itinerary_search_agent", "accept_items", "persist_day_plan"}

\* The raw item the filter examines next.
AtItem == pc = "accept_items" /\ loc.item_index <= Len(loc.items)

\* The filter has examined every item of the current chunk.
ChunkExamined == pc = "accept_items" /\ loc.item_index > Len(loc.items)

\* The name key of an accumulated item.
ItemKey(item) == NameCityKey(item.activity.name, item.activity.city)

\* C14: no item accepted by the filter carries a url that an item before it
\* in the accumulated itinerary (pre-existing, from an earlier chunk or from
\* the same chunk) carries: every url is accepted at most once.
C14_UrlAcceptedOnce ==
    InSynthesis =>
        LET items == loc.accumulated_itinerary_items
        IN  \A j \in (Len(activities.day_plan) + 1)..Len(items) :
                Truthy(items[j].activity.url) =>
                    \A i \in 1..(j - 1) : items[i].activity.url # items[j].activity.url

\* The second chunk proposed the url of an item accepted for 2025-12-01 in
\* the first chunk, and the url is still carried by one item only.
C14_Witness ==
    /\ ChunkExamined
    /\ loc.i = chunk_size
    /\ activities.day_plan = <<>>
    /\ \E k \in 1..Len(loc.items) : loc.items[k].url = UrlTower
    /\ \A k \in 1..Len(loc.items) : loc.items[k].date # Dec01
    /\ LET items == loc.accumulated_itinerary_items
       IN  /\ Cardinality({j \in 1..Len(items) : items[j].activity.url = UrlTower}) = 1
           /\ \E j \in 1..Len(items) :
                 items[j].activity.url = UrlTower /\ items[j].date = Dec01

\* A well-formed meal item without url is accepted unless the neighborhood
\* cap stops it.
MealsNeverDeduped ==
    AtItem =>
        LET raw == loc.items[loc.item_index]
        IN  (/\ IsWellFormed(raw) /\ ~Truthy(raw.url) /\ IsMeal(RawName(raw))
             /\ ~OverNeighborhoodCap(raw, loc.neighborhoods_by_date))
            => Len(loc'.accumulated_itinerary_items)
                  = Len(loc.accumulated_itinerary_items) + 1

\* An item without url that is not a meal is rejected when an accumulated
\* item has its name and city.
RepeatedNameRejected ==
    AtItem =>
        LET raw == loc.items[loc.item_index]
            items == loc.accumulated_itinerary_items
        IN  (/\ IsWellFormed(raw) /\ ~Truthy(raw.url) /\ ~IsMeal(RawName(raw))
             /\ \E i \in 1..Len(items) :
                   ItemKey(items[i]) = NameCityKey(RawName(raw), raw.city))
            => loc'.accumulated_itinerary_items = items

\* C15: an item without url whose case-folded name contains "breakfast",
\* "lunch" or "dinner" is never rejected by the dedupe step, and an item
\* without url that is not a meal is rejected when its case-folded name+city
\* was already accepted.
C15_MealsExemptOthersDeduped == [][MealsNeverDeduped /\ RepeatedNameRejected]_vars

\* C16: in the accumulated day_plan no two items that are not meals carry
\* the same url or the same case-folded name+city.
C16_AttractionAtMostOnce ==
    InSynthesis =>
        LET items == loc.accumulated_itinerary_items
        IN  \A i, j \in 1..Len(items) :
                (/\ i < j
                 /\ ~IsMeal(items[i].activity.name)
                 /\ ~IsMeal(items[j].activity.name))
                => /\ ~(/\ Truthy(items[i].activity.url)
                        /\ items[i].activity.url = items[j].activity.url)
                   /\ ItemKey(items[i]) # ItemKey(items[j])

\* The neighborhoods, blanks stripped, of the items this run accepted for a
\* date.
AcceptedNeighborhoods(d) ==
    LET items == loc.accumulated_itinerary_items
    IN  {StripText(Or(items[j].activity.neighborhood, "")) :
            j \in {k \in (Len(activities.day_plan) + 1)..Len(items) : items[k].date = d}}
        \ {""}

\* C17: for every date the items accepted by the run lie in at most 2
\* distinct non-empty neighborhoods, and when the next item is examined
\* neighborhoods_by_date holds the neighborhoods of all items accepted so far.
C17_AtMostTwoNeighborhoods ==
    InSynthesis =>
        \A d \in ItemDates :
            /\ Cardinality(AcceptedNeighborhoods(d)) <= 2
            /\ loc.neighborhoods_by_date[d] = AcceptedNeighborhoods(d)

\* A chunk proposed an item in a third neighborhood for a date that has two,
\* and the item was not accepted.
C17_Witness ==
    /\ ChunkExamined
    /\ \E k \in 1..Len(loc.items) :
          LET raw == loc.items[k]
          IN  /\ IsWellFormed(raw)
              /\ ~IsRepeat(raw, loc.by_url, loc.by_name_city)
              /\ Neighborhood(raw) # ""
              /\ Neighborhood(raw) \notin AcceptedNeighborhoods(raw.date)
              /\ Cardinality(AcceptedNeighborhoods(raw.date)) = 2

----------------------------------------------------------------------------
(* Properties of _build_canonical_flight_options.                            *)

\* The positions of the raw options that carry a price, and a duration.
PricedAt(options) == {i \in 1..Len(options) : options[i].price # NoNumber}
TimedAt(options) == {i \in 1..Len(options) : options[i].duration_minutes # NoNumber}

\* The prices, and the durations, that the raw options carry are distinct.
DistinctPricesAndDurations(options) ==
    /\ \A i, j \in PricedAt(options) : i # j => options[i].price # options[j].price
    /\ \A i, j \in TimedAt(options) :
          i # j => options[i].duration_minutes # options[j].duration_minutes

\* The canonical options of a type.
OfType(canonical, option_type) ==
    {k \in 1..Len(canonical) : canonical[k].option_type = option_type}

\* The canonical option is built from the raw option.
BuiltFrom(canonical_option, raw) ==
    /\ canonical_option.price_per_ticket_low = raw.price
    /\ canonical_option.total_trip_duration_minutes = raw.duration_minutes

\* The raw option that `balanced` is specified to come from.
BalancedSource(options) ==
    LET best == {i \in 1..Len(options) : options[i].source = "best"}
        priced == PricedAt(options)
    IN  IF best # {} THEN options[CHOOSE i \in best : \A j \in best : i <= j]
        ELSE IF priced # {}
        THEN options[CHOOSE i \in priced :
                        \A j \in priced : options[i].price <= options[j].price]
        ELSE options[1]

\* C18: for a non-empty list of raw options whose prices are distinct and
\* whose durations are distinct, the result holds at most one option per
\* option_type; when an option is priced, the one tagged cheapest is built
\* from the priced option of least price; when an option has a duration, the
\* one tagged fastest is built from the option of least duration; the one
\* tagged balanced is built from the first option of source "best", else from
\* the cheapest, else from the first raw option.
C18_CanonicalOptions ==
    (/\ pc = "canonical_flight_options"
     /\ loc.options # <<>>
     /\ DistinctPricesAndDurations(loc.options))
    => LET options == loc.options
           canonical == loc.canonical
       IN  /\ \A t \in FlightOptionTypes : Cardinality(OfType(canonical, t)) <= 1
           /\ PricedAt(options) # {} =>
                 \E k \in OfType(canonical, "cheapest"), i \in PricedAt(options) :
                    /\ \A j \in PricedAt(options) : options[i].price <= options[j].price
                    /\ BuiltFrom(canonical[k], options[i])
           /\ TimedAt(options) # {} =>
                 \E k \in OfType(canonical, "fastest"), i \in TimedAt(options) :
                    /\ \A j \in TimedAt(options) :
                          options[i].duration_minutes <= options[j].duration_minutes
                    /\ BuiltFrom(canonical[k], options[i])
           /\ \E k \in OfType(canonical, "balanced") :
                 BuiltFrom(canonical[k], BalancedSource(options))

\* Three options without a "best" one: an option without price comes first,
\* the cheapest is last and the fastest is in the middle.
C18_Witness ==
    /\ pc = "canonical_flight_options"
    /\ loc.options = <<RawFlight("other", NoNumber, 900), RawFlight("other", 450, 420),
                       RawFlight("other", 300, NoNumber)>>
    /\ Len(loc.canonical) = 3
    /\ loc.canonical[1].option_type = "cheapest"
    /\ loc.canonical[1].price_per_ticket_low = 300
    /\ loc.canonical[1].total_price_low = 600
    /\ loc.canonical[2].option_type = "fastest"
    /\ loc.canonical[2].total_trip_duration_minutes = 420
    /\ loc.canonical[3].option_type = "balanced"
    /\ loc.canonical[3].price_per_ticket_low = 300

----------------------------------------------------------------------------
(* Properties of compute_cost_summary_from_state.                            *)

RECURSIVE SumTo(_, _)
\* The sum of the first n numbers of a list.
SumTo(amounts, n) == IF n = 0 THEN 0 ELSE amounts[n] + SumTo(amounts, n - 1)

\* The sum of the amounts whose result falls into the bucket; an amount of
\* None adds nothing.
SumWhere(amounts, codes, code) ==
    SumTo([i \in 1..Len(amounts) |->
              IF codes[i] = code /\ amounts[i] # NoNumber THEN amounts[i] ELSE 0],
          Len(amounts))

\* A result counts when its task exists and it holds an option.
Counts(result, state) ==
    /\ \E k \in 1..Len(state.search_tasks) : state.search_tasks[k].task_id = result.task_id
    /\ result.options # <<>>

\* The bucket of every result, "-" for a result that does not count, by the
\* currency of the chosen option as it is stored in the state.
StoredCodes(state) ==
    [i \in 1..Len(state.search_results) |->
        LET result == state.search_results[i]
        IN  IF ~Counts(result, state) THEN "-"
            ELSE IF CostChosenOption(result)[1].currency \in {None, ""} THEN "UNKNOWN"
            ELSE CostChosenOption(result)[1].currency]

\* The same by the currency the chosen option was given when it was built:
\* no currency is a currency left out as well as a currency of None.
GivenCodes(given, state) ==
    [i \in 1..Len(given) |->
        IF ~Counts(given[i], state) THEN "-"
        ELSE IF CostChosenOption(given[i])[1].currency \in {NotGiven, None, ""}
        THEN "UNKNOWN"
        ELSE CostChosenOption(given[i])[1].currency]

\* The low and high amounts of the chosen options, 0 for a result that does
\* not count.
FlightAmounts(state, high) ==
    [i \in 1..Len(state.search_results) |->
        LET result == state.search_results[i]
        IN  IF ~Counts(result, state) THEN 0
            ELSE IF high THEN FlightHigh(CostChosenOption(result)[1], 2)
            ELSE FlightLow(CostChosenOption(result)[1], 2)]

AccommodationAmounts(state, high) ==
    [i \in 1..Len(state.search_results) |->
        LET result == state.search_results[i]
        IN  IF ~Counts(result, state) THEN 0
            ELSE IF high THEN AccommodationHigh(CostChosenOption(result)[1])
            ELSE AccommodationLow(CostChosenOption(result)[1])]

\* The summary holds one bucket per code, and each bucket the sums of the
\* amounts of its code (None for a sum of 0).
SumsByCode(currency_totals, flight_codes, accommodation_codes) ==
    /\ DOMAIN currency_totals = (Range(flight_codes) \cup Range(accommodation_codes)) \ {"-"}
    /\ \A code \in DOMAIN currency_totals :
          /\ currency_totals[code].flights_low
                = OrNone(SumWhere(FlightAmounts(flights, FALSE), flight_codes, code))
          /\ currency_totals[code].flights_high
                = OrNone(SumWhere(FlightAmounts(flights, TRUE), flight_codes, code))
          /\ currency_totals[code].accommodation_low
                = OrNone(SumWhere(AccommodationAmounts(accommodation, FALSE),
                                  accommodation_codes, code))
          /\ currency_totals[code].accommodation_high
                = OrNone(SumWhere(AccommodationAmounts(accommodation, TRUE),
                                  accommodation_codes, code))

\* C19 as stated: the summary sums the low and high totals of each result's
\* chosen option into the bucket of the option's currency code, and into the
\* bucket "UNKNOWN" when the option was given no currency.
C19_UnknownBucketWithoutCurrency ==
    loc.run = "cost_summary" =>
        SumsByCode(loc.currency_totals,
                   GivenCodes(loc.given_flights, flights),
                   GivenCodes(loc.given_accommodation, accommodation))

\* C19 as amended: the bucket is "UNKNOWN" when the currency of the chosen
\* option is None or empty; an option built without a currency carries the
\* default "USD" of its model and is summed into the bucket "USD".
C19_UnknownBucketForNoneCurrency ==
    loc.run = "cost_summary" =>
        SumsByCode(loc.currency_totals, StoredCodes(flights), StoredCodes(accommodation))

\* One flight result of 1000 to 1200 USD and one accommodation result of 500
\* whose currency is None: USD holds the flight, UNKNOWN the stay.
C19_Witness ==
    /\ loc.run = "cost_summary"
    /\ loc.given_flights = <<CostResult("flight_0", "balanced", <<FlightUsd>>)>>
    /\ loc.given_accommodation =
          <<CostResult("accommodation_0", "balanced", <<StayNoCurrency>>)>>
    /\ DOMAIN loc.currency_totals = {"USD", "UNKNOWN"}
    /\ loc.currency_totals["USD"].flights_low = 1000
    /\ loc.currency_totals["USD"].flights_high = 1200
    /\ loc.currency_totals["UNKNOWN"].accommodation_low = 500

----------------------------------------------------------------------------
(* Task ids of the derive tools.                                            *)

Distinct(tasks) ==
    \A i, j \in 1..Len(tasks) : i # j => tasks[i].task_id # tasks[j].task_id

\* C20: after any sequence of derive_visa_search_tasks,
\* derive_flight_search_tasks, derive_accommodation_search_tasks and
\* derive_activity_search_tasks calls, repeated ones included, the task ids
\* within each domain's search_tasks are pairwise distinct.
C20_TaskIdsDistinct ==
    /\ Distinct(visa.search_tasks)
    /\ Distinct(flights.search_tasks)
    /\ Distinct(accommodation.search_tasks)
    /\ Distinct(activities.search_tasks)

\* Every derivation has run twice: each domain holds tasks of two calls that
\* differ in nothing but the id (and, for flights, the same route twice).
C20_Witness ==
    /\ Len(visa.search_tasks) >= 2
    /\ visa.search_tasks[1].nationality = visa.search_tasks[Len(visa.search_tasks)].nationality
    /\ Len(flights.search_tasks) >= 2
    /\ flights.search_tasks[1].origin_city
          = flights.search_tasks[Len(flights.search_tasks)].origin_city
    /\ Len(accommodation.search_tasks) >= 2
    /\ Len(activities.search_tasks) >= 2

----------------------------------------------------------------------------
(* Properties of the intake tools.                                          *)

\* The step is a call of update_trip_plan.
UpdateStep == call'.tool = "update_trip_plan"

\* Element e of a travelers argument merged into the stored traveler t, field
\* by field: what e provides overwrites, what it leaves out stays.
MergedInto(e, t, merged) ==
    /\ merged.role = (IF e.role # None THEN e.role ELSE t.role)
    /\ merged.age = (IF e.age # NoNumber THEN e.age ELSE t.age)
    /\ merged.nationality = (IF e.nationality # None THEN e.nationality ELSE t.nationality)
    /\ merged.origin = (IF e.origin # None THEN e.origin ELSE t.origin)
    /\ merged.origin_airport_code =
          (IF e.origin_airport_code # None THEN e.origin_airport_code
           ELSE t.origin_airport_code)

TravelersNeverShrink ==
    UpdateStep => Len(planner'.demographics.travelers) >= Len(planner.demographics.travelers)

StoredTravelersMerged ==
    UpdateStep =>
        LET old == planner.demographics.travelers
            new == planner'.demographics.travelers
            given == IF call'.args.travelers = NoList THEN <<>> ELSE call'.args.travelers[1]
        IN  \A i \in 1..Len(old) :
                /\ i <= Len(new)
                /\ IF i <= Len(given)
                   THEN MergedInto(given[i], old[i], new[i])
                   ELSE new[i] = old[i]

\* C21: across update_trip_plan calls the travelers list never shrinks and no
\* stored traveler changes position: element i of a travelers argument is
\* merged into the stored traveler at index i (what it provides overwrites,
\* what it leaves out stays) and new travelers are appended only beyond the
\* current length.
C21_TravelersStable == [][TravelersNeverShrink /\ StoredTravelersMerged]_vars

\* The call gives destination, origin, both dates, budget_mode, the adult and
\* child counts and nationality.
IsFullCall(a) ==
    /\ a.destination # None /\ a.origin # None
    /\ a.start_date # NoDate /\ a.end_date # NoDate
    /\ a.budget_mode \in BudgetModes
    /\ a.adults # NoNumber /\ a.children # NoNumber
    /\ a.nationality # NoList

\* The planner state read back carries the values of the call.
CarriesValues(state, a) ==
    /\ state.trip_details.destination = a.destination
    /\ state.trip_details.origin = a.origin
    /\ state.trip_details.start_date = a.start_date
    /\ state.trip_details.end_date = a.end_date
    /\ state.preferences.budget_mode = a.budget_mode
    /\ state.demographics.adults = a.adults
    /\ state.demographics.children = a.children
    /\ state.demographics.nationality = a.nationality

FullCallOnFreshSession ==
    UpdateStep /\ planner = DefaultPlannerState /\ IsFullCall(call'.args)

\* C22: update_trip_plan called on a fresh session with destination, origin,
\* start_date, end_date, budget_mode, adult and child counts and nationality
\* returns "success", the planner state read back carries those values, and
\* the planner status is "planning".
C22_FullCallReachesPlanning ==
    [][FullCallOnFreshSession =>
          /\ ret'.status = "success"
          /\ CarriesValues(get_planner_state(planner'), call'.args)
          /\ get_planner_state(planner').status = "planning"]_vars

\* What makes an intake complete: destination, both dates and budget_mode
\* set, an origin known at trip level or on every traveler of a non-empty
\* list, the adult and child counts set, at least adults + children + seniors
\* travelers, and nationality known in aggregate or for every traveler.
IntakeIsComplete(state) ==
    LET td == state.trip_details
        demo == state.demographics
        travelers == demo.travelers
    IN  /\ Truthy(td.destination) /\ td.start_date # NoDate /\ td.end_date # NoDate
        /\ state.preferences.budget_mode # None
        /\ \/ Truthy(td.origin)
           \/ Truthy(td.origin_airport_code)
           \/ /\ Len(travelers) > 0
              /\ \A i \in 1..Len(travelers) :
                    Truthy(travelers[i].origin) \/ Truthy(travelers[i].origin_airport_code)
        /\ demo.adults # NoNumber /\ demo.children # NoNumber
        /\ Len(travelers) >= OrZero(demo.adults) + OrZero(demo.children) + OrZero(demo.seniors)
        /\ \/ Len(demo.nationality) = 1 /\ Len(demo.nationality[1]) > 0
           \/ \A i \in 1..Len(travelers) : Truthy(travelers[i].nationality)

\* C23: is_intake_complete is false for a default PlannerState and true
\* exactly when destination, start_date, end_date and budget_mode are set, an
\* origin is known, the adult and child counts are set, the travelers list has
\* at least adults + children + seniors entries, and nationality is known in
\* aggregate or for every traveler. mark_ready_for_planning, unless it skips
\* a session past intake, succeeds exactly when is_intake_complete is true.
C23_IntakeCompleteExactly ==
    call.tool = "mark_ready_for_planning" /\ ret.status # "skipped" =>
        /\ (ret.status = "success") <=> IntakeIsComplete(planner)
        /\ [planner EXCEPT !.status = "intake"] = DefaultPlannerState
              => ret.status = "error"

\* An intake found complete on per-traveler information alone: no aggregate
\* nationality and no trip-level origin.
C23_Witness ==
    /\ call.tool = "mark_ready_for_planning"
    /\ ret.status = "success"
    /\ planner.demographics.nationality = NoList
    /\ planner.trip_details.origin = None
    /\ planner.trip_details.origin_airport_code = None
    /\ Len(planner.demographics.travelers) = 2

----------------------------------------------------------------------------
(* Properties of the derive tool on incomplete trips.                        *)

\* A field derive_flight_search_tasks requires is missing.
MissingFlightInputs ==
    \/ ~Truthy(planner.trip_details.destination_airport_code)
    \/ planner.demographics.travelers = <<>>
    \/ planner.trip_details.start_date = NoDate

\* C24: derive_flight_search_tasks returns status "skipped" with a reason,
\* does not raise, and leaves flights.search_tasks and the rest of the session
\* state unchanged when destination_airport_code is missing, the travelers
\* list is empty, or start_date is missing.
C24_SkipLeavesStateUnchanged ==
    [][(call'.tool = "derive_flight_search_tasks" /\ MissingFlightInputs) =>
          /\ ret'.status = "skipped"
          /\ ret'.reason \in {"missing_destination_airport_code",
                              "missing_destination_travelers_or_start_date"}
          /\ UNCHANGED <<planner, visa, flights, accommodation, activities>>]_vars

\* A skipped derivation on a session that holds a flight task: the task is
\* still there.
C24_Witness ==
    /\ call.tool = "derive_flight_search_tasks"
    /\ ret.status = "skipped"
    /\ planner.trip_details.start_date = NoDate
    /\ Truthy(planner.trip_details.destination_airport_code)
    /\ Len(flights.search_tasks) = 1

----------------------------------------------------------------------------
(* Properties of apply_visa_search_results.                                  *)

\* needs_visa of a traveler in a visa state: <<>> while unset.
NeedsVisaOf(v, traveler_index) ==
    LET at == RequirementAt(v.requirements, traveler_index)
    IN  IF at = 0 THEN <<>> ELSE v.requirements[at].needs_visa

TravelerIndexes == 0..(Len(planner.demographics.travelers) - 1)

\* The results of v whose task covers the traveler.
ResultsFor(v, traveler_index) ==
    {r \in 1..Len(v.search_results) :
        \E k \in 1..Len(v.search_tasks) :
            /\ v.search_tasks[k].task_id = v.search_results[r].task_id
            /\ \A j \in (k + 1)..Len(v.search_tasks) :
                  v.search_tasks[j].task_id # v.search_results[r].task_id
            /\ traveler_index \in Range(v.search_tasks[k].traveler_indexes)}

SaysNoVisa(result) ==
    \/ InCorpus("no visa required", Corpus(result))
    \/ InCorpus("do not require a visa", Corpus(result))

SaysVisa(result) ==
    \/ InCorpus("visa required", Corpus(result))
    \/ InCorpus("require a visa", Corpus(result))

ApplyVisaStep == call'.tool = "apply_visa_search_results" /\ ret'.status = "success"

\* An apply pass: a traveler some result of whom says no visa ends at False;
\* otherwise a traveler still unset some result of whom says visa ends at
\* True; otherwise needs_visa stays.
NeedsVisaAfterApply ==
    ApplyVisaStep =>
        \A t \in TravelerIndexes :
            LET results == {visa.search_results[r] : r \in ResultsFor(visa, t)}
                old == NeedsVisaOf(visa, t)
                new == NeedsVisaOf(visa', t)
            IN  IF \E result \in results : SaysNoVisa(result) THEN new = <<FALSE>>
                ELSE IF old = <<>> /\ \E result \in results : SaysVisa(result)
                THEN new = <<TRUE>>
                ELSE new = old

FalseStaysFalse ==
    \A t \in TravelerIndexes :
        NeedsVisaOf(visa, t) = <<FALSE>> => NeedsVisaOf(visa', t) = <<FALSE>>

\* C27: in apply_visa_search_results a result whose lowered summary and notes
\* contain "no visa required" or "do not require a visa" sets the traveler's
\* needs_visa to False, and one containing "visa required" or "require a visa"
\* sets it to True only while needs_visa is unset; once needs_visa is False no
\* later result of the pass and no later apply run makes it True.
C27_NoVisaIsSticky == [][NeedsVisaAfterApply /\ FalseStaysFalse]_vars

\* Traveler 0 is at False after a pass over a result saying no visa followed
\* by one saying visa.
C27_Witness ==
    /\ call.tool = "apply_visa_search_results"
    /\ ret.status = "success"
    /\ {1, 2} \subseteq ResultsFor(visa, 0)
    /\ SaysNoVisa(visa.search_results[1])
    /\ SaysVisa(visa.search_results[2]) /\ ~SaysNoVisa(visa.search_results[2])
    /\ NeedsVisaOf(visa, 0) = <<FALSE>>

\* The day counts the hints of the stored results carry: of each hint holding
\* an integer, its greatest integer.
HintDays(v) ==
    {MaxOf(HintNumbers(v.search_results[r].processing_time_hint)) :
        r \in {q \in 1..Len(v.search_results) :
                 /\ v.search_results[q].processing_time_hint # None
                 /\ HintNumbers(v.search_results[q].processing_time_hint) # <<>>}}

GreatestOf(days) == CHOOSE d \in days : \A e \in days : e <= d

Into1To120(d) == IF d < 1 THEN 1 ELSE IF d > 120 THEN 120 ELSE d

\* C28: apply_visa_search_results sets earliest_safe_departure_date to today
\* plus D days, D the greatest integer of any result's processing_time_hint
\* (greatest per hint, then across hints) clamped into 1..120; when no result
\* carries a hint holding an integer the stored date is left as it was.
C28_DepartureFromHints ==
    [][call'.tool = "apply_visa_search_results" =>
          IF HintDays(visa) # {}
          THEN visa'.earliest_safe_departure_date =
                   IsoFormat(FromIso(loc.today) + Into1To120(GreatestOf(HintDays(visa))))
          ELSE visa'.earliest_safe_departure_date = visa.earliest_safe_departure_date]_vars

\* An apply run on the later day over hints of 6 and 200 days has overwritten
\* the date with that day plus 120.
C28_Witness ==
    /\ call.tool = "apply_visa_search_results"
    /\ ret.status = "success"
    /\ HintDays(visa) = {6, 200}
    /\ loc.today = Dec25
    /\ visa.earliest_safe_departure_date = IsoFormat(FromIso(Dec25) + 120)

----------------------------------------------------------------------------
(* Properties of the reconciliation over results that share a task_id.       *)

\* Positions of the results stored under a task_id.
PositionsOf(results, task_id) == {i \in 1..Len(results) : results[i].task_id = task_id}

FirstOf(positions) == CHOOSE i \in positions : \A j \in positions : i <= j

LastOf(positions) == CHOOSE i \in positions : \A j \in positions : j <= i

\* The choice carries the summary and type of the result and holds exactly
\* the result's options.
ChoiceBuiltFrom(choice, result) ==
    /\ choice.summary = result.summary
    /\ choice.chosen_option_type = result.chosen_option_type
    /\ Range(choice.chosen_option) \cup Range(choice.other_options) = Range(result.options)
    /\ Len(choice.chosen_option) + Len(choice.other_options) = Len(result.options)

FlightApplyStep == call'.tool = "apply_flight_search_results" /\ ret'.status = "success"

AccommodationApplyStep ==
    call'.tool = "apply_accommodation_search_results" /\ ret'.status = "success"

\* C29 as stated: when search_results holds two results of one task_id, the
\* reconciliation of apply_flight_search_results and
\* apply_accommodation_search_results builds the task's choices from the
\* first of them.
C29_FirstMatchWins ==
    [][/\ FlightApplyStep =>
            \A k \in 1..Len(flights'.traveler_flights) :
               LET choice == flights'.traveler_flights[k]
                   results == flights'.search_results
               IN  ChoiceBuiltFrom(choice, results[FirstOf(PositionsOf(results, choice.task_id))])
       /\ AccommodationApplyStep =>
            \A k \in 1..Len(accommodation'.traveler_accommodations) :
               LET choice == accommodation'.traveler_accommodations[k]
                   results == accommodation'.search_results
               IN  ChoiceBuiltFrom(choice, results[FirstOf(PositionsOf(results, choice.task_id))])]_vars

\* C29 amended: when search_results holds two results of one task_id, the
\* reconciliation of apply_flight_search_results and
\* apply_accommodation_search_results builds the task's choices from the
\* last of them.
C29_LastMatchWins ==
    [][/\ FlightApplyStep =>
            \A k \in 1..Len(flights'.traveler_flights) :
               LET choice == flights'.traveler_flights[k]
                   results == flights'.search_results
               IN  ChoiceBuiltFrom(choice, results[LastOf(PositionsOf(results, choice.task_id))])
       /\ AccommodationApplyStep =>
            \A k \in 1..Len(accommodation'.traveler_accommodations) :
               LET choice == accommodation'.traveler_accommodations[k]
                   results == accommodation'.search_results
               IN  ChoiceBuiltFrom(choice, results[LastOf(PositionsOf(results, choice.task_id))])]_vars

\* An apply has built a flight choice of a task that has two stored results
\* with different summaries.
C29_Witness ==
    /\ call.tool = "apply_flight_search_results"
    /\ ret.status = "success"
    /\ \E k \in 1..Len(flights.traveler_flights) :
          LET positions == PositionsOf(flights.search_results,
                                       flights.traveler_flights[k].task_id)
          IN  /\ FirstOf(positions) # LastOf(positions)
              /\ flights.search_results[FirstOf(positions)].summary
                    # flights.search_results[LastOf(positions)].summary

----------------------------------------------------------------------------
(* Properties of the stub results of run_flight_search_pipeline.             *)

\* The canonical options stage 1 computed for the task of a stub.
CanonicalOf(result) == DictGet(loc.canonical_flight_options_by_task, result.task_id)

\* The stub carries the canonical options of its task and the labelled
\* fallback summary.
CarriesCanonicalOptions(result) ==
    /\ result.options = ParseFlightOptions(CanonicalOf(result))
    /\ \E task \in Range(flights.search_tasks) :
          /\ task.task_id = result.task_id
          /\ result.summary = "Fallback summary for flights from "
                                  \o Or(task.origin_city, "UNKNOWN ORIGIN") \o " to "
                                  \o Or(task.destination_city, "UNKNOWN DESTINATION")

\* C30: a stub FlightSearchResult of the fallback step carries the canonical
\* options computed in stage 1 for its task and a labelled fallback summary,
\* and its chosen_option_type is "balanced" when canonical options exist for
\* the task and unset when there are none.
C30_StubDefaultsToBalanced ==
    pc = "flight_apply_agent" =>
        \A i \in 1..Len(flights.search_results) :
            LET result == flights.search_results[i]
            IN  IsFlightStub(result) =>
                   /\ CarriesCanonicalOptions(result)
                   /\ result.chosen_option_type =
                          IF CanonicalOf(result) # <<>> THEN "balanced" ELSE None

----------------------------------------------------------------------------
(* Properties of the snapshot guard of run_flight_search_pipeline.           *)

\* flight_apply_agent has given its final response.
ApplyAgentReturns == pc = "flight_apply_agent" /\ pc' # "flight_apply_agent"

\* run_flight_search_pipeline returns.
FlightSearchPipelineEnds ==
    /\ pc \in {"flight_apply_agent", "flight_apply_tool_agent"}
    /\ pc' = "run_flight_pipeline"

----------------------------------------------------------------------------
(* Properties of a planning turn of main.                                    *)

\* The stage of the turn a position of the driver belongs to: 1 the visa
\* agent and pipeline, 2 run_flight_pipeline, 3 run_accommodation_pipeline,
\* 4 run_activity_pipeline, 5 run_trip_summary.
StageOf(position) ==
    CASE position = "main" -> 0
      [] position \in {"visa_agent", "visa_result_writer_agent", "visa_apply"} -> 1
      [] position \in {"run_flight_pipeline", "flight_agent", "flight_search_tool_agent",
                       "flight_search_agent", "flight_apply_agent",
                       "flight_apply_tool_agent"} -> 2
      [] position \in {"run_accommodation_pipeline", "accommodation_agent",
                       "accommodation_search_tool_agent", "accommodation_search_agent",
                       "accommodation_apply_agent", "accommodation_apply_tool_agent"} -> 3
      [] position \in {"run_activity_pipeline", "activity_agent",
                       "activity_result_writer_agent"} -> 4
      [] position = "run_trip_summary" -> 5
      [] OTHER -> 6

\* A step stays in its stage or starts the next one.
StagesInOrder == StageOf(pc') \in {StageOf(pc), StageOf(pc) + 1}

\* The state of a stage is written in that stage only: a pipeline has
\* completed when the next starts.
StagesComplete ==
    /\ visa' # visa => StageOf(pc) = 1
    /\ flights' # flights => StageOf(pc) = 2
    /\ accommodation' # accommodation => StageOf(pc) = 3
    /\ activities' # activities => StageOf(pc) = 4

\* The tasks flight_agent derives depart on the safe date the visa stage left
\* in the session when that date is later than the trip's start.
FlightDerivationReadsVisa ==
    (call'.tool = "derive_flight_search_tasks" /\ ret'.status = "success") =>
        \A i \in (Len(flights.search_tasks) + 1)..Len(flights'.search_tasks) :
            flights'.search_tasks[i].recommended_departure_date =
                IF SafeDateLater THEN visa.earliest_safe_departure_date
                ELSE planner.trip_details.start_date

\* The arrival dates of the choices the flight stage left in the session.
ChosenArrivals ==
    {WindowOption(flights.traveler_flights[k])[1].outbound_arrival :
        k \in {j \in 1..Len(flights.traveler_flights) :
                 /\ WindowOption(flights.traveler_flights[j]) # <<>>
                 /\ WindowOption(flights.traveler_flights[j])[1].outbound_arrival # NoDate}}

\* The task accommodation_agent derives checks in on the arrival date of the
\* flight choices when they carry one.
AccommodationDerivationReadsFlights ==
    (call'.tool = "derive_accommodation_search_tasks" /\ ret'.status = "success") =>
        LET task == accommodation'.search_tasks[Len(accommodation'.search_tasks)]
        IN  IF ChosenArrivals # {} THEN task.check_in_date \in ChosenArrivals
            ELSE task.check_in_date = planner.trip_details.start_date

\* C25: within one planning turn of main the visa pipeline,
\* run_flight_pipeline, run_accommodation_pipeline, run_activity_pipeline and
\* run_trip_summary run strictly in that order, each completing before the
\* next starts; flight task derivation reads the earliest_safe_departure_date
\* written by the visa apply step and accommodation task derivation reads the
\* traveler_flights written by the flight apply step.
C25_PipelinesInOrder ==
    [][/\ StagesInOrder
       /\ StagesComplete
       /\ FlightDerivationReadsVisa
       /\ AccommodationDerivationReadsFlights]_vars

\* The turn is over: the visa apply step of 2025-12-25 wrote 2025-12-31, the
\* flight task departs on it, and the accommodation task checks in on the
\* arrival date of the flight choice.
C25_Witness ==
    /\ pc = "input"
    /\ visa.earliest_safe_departure_date = <<2025, 12, 31>>
    /\ flights.search_tasks # <<>>
    /\ flights.search_tasks[1].recommended_departure_date = <<2025, 12, 31>>
    /\ ChosenArrivals = {Dec02}
    /\ accommodation.search_tasks # <<>>
    /\ accommodation.search_tasks[1].check_in_date = Dec02
    /\ activities.search_tasks # <<>>

----------------------------------------------------------------------------
(* Properties of the capacity filter and of the tasks it leaves empty.      *)

\* The results the session state holds for one accommodation task.
HeldFor(state, task_id) ==
    {i \in 1..Len(state.search_results) : state.search_results[i].task_id = task_id}

\* Every canonical option kept for a task comes from a raw option of the
\* provider whose max_guests is at least the party size of the task.
CanonicalOptionsFit ==
    (loc.run = "accommodation" /\ "canonical_options_by_task" \in DOMAIN loc) =>
        \A k \in 1..Len(loc.canonical_options_by_task) :
            LET entry == loc.canonical_options_by_task[k]
                task == TaskById(loc.pending_tasks, entry.key)[1]
            IN  \A n \in 1..Len(entry.value) :
                    \E tool_result \in AccommodationToolResultInputs \ {<<>>} :
                        \E m \in 1..Len(tool_result[1].options) :
                            LET raw == tool_result[1].options[m]
                            IN  /\ raw.total_price_low = entry.value[n].total_price_low
                                /\ raw.max_guests >= NumPeople(planner, task)

\* run_accommodation_pipeline returns.
AccommodationPipelineEnds ==
    /\ pc \in {"accommodation_apply_agent", "accommodation_apply_tool_agent"}
    /\ pc' = "run_accommodation_pipeline"

\* C31: every raw option with max_guests below the party size is dropped
\* before canonicalization, and a task the filter or the provider left
\* without options is recorded as attempted and ends the pipeline with a
\* result in the session state, a stub without options and without
\* chosen_option_type.
C31_NoOptionEndsInStub ==
    [][/\ CanonicalOptionsFit
       /\ AccommodationPipelineEnds =>
             \A k \in 1..Len(loc.canonical_options_by_task) :
                 LET entry == loc.canonical_options_by_task[k]
                     held == HeldFor(accommodation', entry.key)
                 IN  entry.value = <<>> =>
                        /\ \E j \in 1..Len(loc.summary_attempted_task_ids) :
                               loc.summary_attempted_task_ids[j] = entry.key
                        /\ held # {}
                        /\ \A i \in held :
                               LET result == accommodation'.search_results[i]
                               IN  IsAccommodationStub(result) =>
                                      /\ result.options = <<>>
                                      /\ result.chosen_option_type = None]_vars

----------------------------------------------------------------------------
(* Properties of the slices the itinerary loop skips.                       *)

\* The step of day_itinerary_search_agent that ends with the slice skipped.
SliceSkipped == pc = "day_itinerary_search_agent" /\ loc'.preview # <<>>

\* A skipped slice leaves the accumulated items as they were and the loop
\* goes on with the next slice, to the write-back after the last one.
SkipKeepsItemsAndGoesOn ==
    SliceSkipped =>
        /\ loc'.accumulated_itinerary_items = loc.accumulated_itinerary_items
        /\ IF loc.i + chunk_size < Len(loc.trip_calendar)
           THEN pc' = "day_itinerary_search_agent" /\ loc'.i = loc.i + chunk_size
           ELSE pc' = "persist_day_plan"

\* No item the filter would accept is lost with a skipped slice: a reply
\* that carries an items list is skipped only when none of its items is one
\* the filter accepts.
SkipLosesNoGoodItem ==
    SliceSkipped =>
        LET reply == loc'.preview[1]
        IN  \A n \in 1..Len(reply.items) :
                IsDict(reply.items[n]) =>
                    ~Accepts(reply.items[n], loc.by_url, loc.by_name_city,
                             loc.neighborhoods_by_date)

\* A malformed item changes nothing but the position in the list, and the
\* item after it is examined as if it had not been there.
MalformedItemDroppedAlone ==
    (AtItem /\ ~IsWellFormed(loc.items[loc.item_index])) =>
        /\ loc' = [loc EXCEPT !.item_index = @ + 1]
        /\ pc' = pc

\* C32: a slice whose reply is empty or cannot be parsed is skipped with the
\* items accepted so far kept and the later slices still processed, and a
\* malformed item is dropped without affecting the other items of its
\* slice.
C32_MalformedInputIsolated ==
    [][SkipKeepsItemsAndGoesOn /\ SkipLosesNoGoodItem /\ MalformedItemDroppedAlone]_vars

----------------------------------------------------------------------------
(* _build_canonical_accommodation_options over lists of raw options.        *)

\* Longest list of raw stays.
MaxStays == 4

\* Raw stays as the search tools normalize them: a key the provider did not
\* give is missing from the dict.
StayTotalLow == [total_price_low |-> 300, rating |-> 4]
StayTotalHigh == [total_price_high |-> 250, rating |-> 5]
StayTotalAndNightly == [total_price_low |-> 400, nightly_price_low |-> 90, rating |-> 5]
StayNightlyHigh == [nightly_price_high |-> 120, rating |-> 3]
StayNoPrice == [rating |-> 2]
StayNoRating == [total_price_low |-> 200]

RawStayInputs ==
    {StayTotalLow, StayTotalHigh, StayTotalAndNightly, StayNightlyHigh, StayNoPrice,
     StayNoRating}

InitStays ==
    /\ planner = PlannerState(
           TripDetails("UK", "LHR", "Lagos", None, Dec01, Dec20, FALSE),
           <<Lagos, Abuja>>, "standard", "planning")
    /\ visa = EmptyVisa
    /\ flights = EmptyFlights
    /\ accommodation = EmptyAccommodation
    /\ activities = EmptyActivities
    /\ call = NoCall
    /\ ret = NoRet
    /\ pc = "build_canonical_accommodation_options"
    /\ \E raw_options \in UNION {[1..n -> RawStayInputs] : n \in 0..MaxStays} :
          loc = [run |-> "stays", raw_options |-> raw_options, picks |-> <<>>,
                 canonical |-> <<>>]
    /\ session_service = "live"

\* One call of _build_canonical_accommodation_options; picks keeps which raw
\* option each canonical option was made from.
build_canonical_accommodation_options ==
    /\ pc = "build_canonical_accommodation_options"
    /\ loc' = [loc EXCEPT !.picks = CanonicalStayPicks(loc.raw_options),
                          !.canonical = BuildCanonicalAccommodationOptions(loc.raw_options)]
    /\ pc' = "canonical_accommodation_options"
    /\ UNCHANGED <<planner, visa, flights, accommodation, activities, call, ret,
                   session_service>>

NextStays == build_canonical_accommodation_options

SpecStays == InitStays /\ [][NextStays]_vars

\* The price key as the documentation words it: total_price_low, else
\* total_price_high, else nightly_price_low, else nightly_price_high, else 0.
StatedPriceKey(opt) ==
    IF "total_price_low" \in DOMAIN opt THEN opt.total_price_low
    ELSE IF "total_price_high" \in DOMAIN opt THEN opt.total_price_high
    ELSE IF "nightly_price_low" \in DOMAIN opt THEN opt.nightly_price_low
    ELSE IF "nightly_price_high" \in DOMAIN opt THEN opt.nightly_price_high
    ELSE 0

StatedRating(opt) == IF "rating" \in DOMAIN opt THEN opt.rating ELSE 0

\* The highest-rated raw option, the first of the list among equals.
HighestRated(raw_options) ==
    CHOOSE i \in 1..Len(raw_options) :
        \A j \in 1..Len(raw_options) :
            /\ StatedRating(raw_options[i]) >= StatedRating(raw_options[j])
            /\ StatedRating(raw_options[i]) = StatedRating(raw_options[j]) => i <= j

\* C33: _build_canonical_accommodation_options returns [] for [] and, for
\* n >= 1 raw options, min(n, 3) options each made from a different raw
\* option: first the cheapest by the price key, then the highest-rated as
\* best_location unless it is the cheapest, then the cheapest of the rest in
\* ascending price order as balanced.
C33_CanonicalStays ==
    pc = "canonical_accommodation_options" =>
        LET raw_options == loc.raw_options
            picks == loc.picks
            n == Len(raw_options)
            Key(k) == StatedPriceKey(raw_options[picks[k].source])
            first_balanced == IF HighestRated(raw_options) # picks[1].source THEN 3 ELSE 2
        IN  /\ n = 0 => loc.canonical = <<>>
            /\ n >= 1 =>
                  /\ Len(loc.canonical) = IF n < 3 THEN n ELSE 3
                  /\ Len(picks) = Len(loc.canonical)
                  /\ \A k \in 1..Len(picks) :
                        /\ picks[k].source \in 1..n
                        /\ loc.canonical[k].option_type = picks[k].option_type
                        /\ loc.canonical[k].total_price_low =
                               GetNumber(raw_options[picks[k].source], "total_price_low")
                        /\ \A m \in 1..Len(picks) :
                               picks[m].source = picks[k].source => m = k
                  /\ picks[1].option_type = "cheapest"
                  /\ \A j \in 1..n : Key(1) <= StatedPriceKey(raw_options[j])
                  /\ \A k \in 2..Len(picks) :
                        IF k < first_balanced
                        THEN /\ picks[k].option_type = "best_location"
                             /\ picks[k].source = HighestRated(raw_options)
                        ELSE /\ picks[k].option_type = "balanced"
                             /\ \A m \in first_balanced..(k - 1) : Key(m) <= Key(k)
                             /\ \A j \in 1..n :
                                    (\A m \in 1..Len(picks) : picks[m].source # j)
                                        => Key(k) <= StatedPriceKey(raw_options[j])
                  /\ (HighestRated(raw_options) # picks[1].source) =>
                         (Len(picks) >= 2 /\ picks[2].option_type = "best_location")

\* Four raw stays: the cheapest is third by its nightly price, the first of
\* the two highest-rated is best_location, the cheaper of the other two is
\* balanced and the fourth is left out.
C33_Witness ==
    /\ pc = "canonical_accommodation_options"
    /\ loc.raw_options = <<StayTotalAndNightly, StayTotalHigh, StayNightlyHigh, StayTotalLow>>
    /\ loc.picks = <<[option_type |-> "cheapest", source |-> 3],
                     [option_type |-> "best_location", source |-> 1],
                     [option_type |-> "balanced", source |-> 2]>>
    /\ loc.canonical[2].total_price_low = 400

----------------------------------------------------------------------------
(* Frame of update_trip_plan and the planner status.                         *)

\* The step is a call of update_trip_plan with the arguments call'.args.
UpdateTripPlanCalled == call'.tool = "update_trip_plan"

\* Every trip-detail field without an argument keeps its stored value.
TripDetailsKept(a) ==
    LET old == planner.trip_details
        new == planner'.trip_details
    IN  /\ a.destination = None => new.destination = old.destination
        /\ a.origin = None => new.origin = old.origin
        /\ a.origin_airport_code = None => new.origin_airport_code = old.origin_airport_code
        /\ a.destination_airport_code = None
              => new.destination_airport_code = old.destination_airport_code
        /\ a.start_date = NoDate => new.start_date = old.start_date
        /\ a.end_date = NoDate => new.end_date = old.end_date
        /\ new.flexible_dates = old.flexible_dates

\* Every demographic field without an argument keeps its stored value.
DemographicsKept(a) ==
    LET old == planner.demographics
        new == planner'.demographics
    IN  /\ a.adults = NoNumber => new.adults = old.adults
        /\ a.children = NoNumber => new.children = old.children
        /\ a.seniors = NoNumber => new.seniors = old.seniors
        /\ a.nationality = NoList => new.nationality = old.nationality
        /\ a.travelers = NoList => new.travelers = old.travelers

\* Every preference without an argument keeps its stored value.
PreferencesKept(a) ==
    LET old == planner.preferences
        new == planner'.preferences
    IN  /\ a.budget_mode = None => new.budget_mode = old.budget_mode
        /\ a.total_budget = NoNumber => new.total_budget = old.total_budget

\* C34: update_trip_plan changes only the planner fields for which an
\* argument other than None is given; a trip-detail, demographic or
\* preference field without an argument keeps its stored value, and the
\* visa, flight, accommodation and activity states are not modified.
C34_OnlyGivenFieldsChange ==
    [][UpdateTripPlanCalled =>
          /\ TripDetailsKept(call'.args)
          /\ DemographicsKept(call'.args)
          /\ PreferencesKept(call'.args)
          /\ UNCHANGED <<visa, flights, accommodation, activities>>]_vars


\* The step is a call of mark_ready_for_planning.
MarkReadyCalled == call'.tool = "mark_ready_for_planning"

\* mark_ready_for_planning changes the status only from "intake" to
\* "planning", and only when the intake of the stored state is complete.
MarkReadyOnlyWhenComplete ==
    (MarkReadyCalled /\ planner'.status # planner.status) =>
        /\ planner.status = "intake"
        /\ planner'.status = "planning"
        /\ is_intake_complete(planner)

\* Past the intake the call is skipped, with an incomplete intake it is an
\* error, and neither changes the session state.
MarkReadyRefusals ==
    MarkReadyCalled =>
        /\ planner.status # "intake" => (ret'.status = "skipped" /\ planner' = planner)
        /\ (planner.status = "intake" /\ ~is_intake_complete(planner))
              => (ret'.status = "error" /\ planner' = planner)

\* No step takes the status from "planning" back to "intake".
NeverBackToIntake == ~(planner.status = "planning" /\ planner'.status = "intake")

\* C35: mark_ready_for_planning changes the status only from "intake" to
\* "planning" and only when is_intake_complete holds; it answers "skipped"
\* when the status is not "intake" and "error" when the intake is
\* incomplete, leaving the session state unchanged; and no operation moves
\* the status from "planning" back to "intake".
C35_StatusOnlyForward ==
    [][MarkReadyOnlyWhenComplete /\ MarkReadyRefusals /\ NeverBackToIntake]_vars

----------------------------------------------------------------------------
(* Task ids of build_visa_search_prompt.                                      *)

\* C36: after any sequence of build_visa_search_prompt calls, calls repeated
\* for the same traveler index and destination included, the task ids of
\* visa.search_tasks are pairwise distinct.
C36_PromptTaskIdsDistinct == Distinct(visa.search_tasks)

----------------------------------------------------------------------------
(* The guard of the flight search pipeline.                                  *)

\* run_flight_search_pipeline starts.
FlightSearchStarts ==
    pc \in {"run_flight_pipeline", "flight_agent"} /\ pc' = "flight_search_tool_agent"

\* The search starts only on a session state with tasks and without results.
SearchOnlyWithoutResults ==
    FlightSearchStarts =>
        /\ loc'.flight_state = flights
        /\ flights.search_tasks # <<>>
        /\ flights.search_results = <<>>

\* An invocation of run_flight_pipeline that finds a result returns at once
\* and leaves the flight state as it is: no task is searched and no result
\* is added.
InvocationWithResultsIsIdle ==
    (pc = "run_flight_pipeline" /\ flights.search_results # <<>>) =>
        (pc' = "run_flight_pipeline" /\ flights' = flights)

\* C37: run_flight_pipeline invokes the search pipeline only when
\* search_tasks is non-empty and search_results is empty; once one result is
\* recorded, a task without a result is not searched again and receives no
\* result in a later invocation.
C37_SearchOncePerSession == [][SearchOnlyWithoutResults /\ InvocationWithResultsIsIdle]_vars

\* A later invocation is due on a session that holds a result for the task
\* of Abuja and none for the task of Lagos.
C37_Witness ==
    /\ pc = "run_flight_pipeline"
    /\ TaskIds(flights.search_results) = {"flight_ABV_LHR_1"}
    /\ TaskIds(PendingTasks(flights)) = {"flight_Lagos_LHR_0"}

----------------------------------------------------------------------------
(* The dates of a task whose departure was shifted.                          *)

\* C38: every derived FlightSearchTask whose departure was shifted
\* (visa_timeline_reason is set) and whose original return date parses
\* recommends a departure strictly earlier than the return it recommends.
C38_ShiftedDepartureBeforeReturn ==
    \A i \in 1..Len(flights.search_tasks) :
        LET task == flights.search_tasks[i]
        IN  (task.visa_timeline_reason # NoReason /\ IsDate(task.original_return_date))
                => DateLess(task.recommended_departure_date, task.recommended_return_date)

\* A trip that ends before it starts (2025-12-01 to 2025-11-20), moved to
\* the safe date 2025-12-05: the return is three days after the departure.
C38_Witness ==
    /\ flights.search_tasks # <<>>
    /\ flights.search_tasks[1].original_departure_date = Dec01
    /\ flights.search_tasks[1].original_return_date = Nov20
    /\ flights.search_tasks[1].visa_timeline_reason # NoReason
    /\ flights.search_tasks[1].recommended_departure_date = Dec05
    /\ flights.search_tasks[1].recommended_return_date = <<2025, 12, 8>>

----------------------------------------------------------------------------
(* The chosen option type of repaired and synthesized results.               *)

\* The option types a result carries.
OptionTypesOf(result) == {result.options[k].option_type : k \in 1..Len(result.options)}

\* The result was synthesized by the driver, after the search loop or by the
\* last fallback.
IsSynthesized(result, state) ==
    \E i \in 1..Len(state.search_tasks) :
        result.summary \in {AccommodationFallbackSummary(state.search_tasks[i], NotFetched),
                            AccommodationFallbackSummary(state.search_tasks[i], NotRecorded)}

\* A synthesized result with options chooses the type of one of them.
SynthesizedChoosesAnOption ==
    \A i \in 1..Len(accommodation'.search_results) :
        LET result == accommodation'.search_results[i]
        IN  (IsSynthesized(result, accommodation') /\ result.options # <<>>)
                => result.chosen_option_type \in OptionTypesOf(result)

\* A result the driver repairs, filling in the options it lacked, chooses
\* the type of one of them.
RepairedChoosesAnOption ==
    (pc = "accommodation_search_tool_agent" /\ pc' = "accommodation_apply_agent") =>
        \A i \in 1..Len(accommodation.search_results) :
            (accommodation.search_results[i].options = <<>>
             /\ accommodation'.search_results[i].options # <<>>)
                => accommodation'.search_results[i].chosen_option_type
                       \in OptionTypesOf(accommodation'.search_results[i])

\* C39: every AccommodationSearchResult the driver repairs or synthesizes
\* with options has as chosen_option_type the option_type of one of its
\* options, whether it carries one, two or three canonical options.
C39_ChosenTypeAmongOptions == [][SynthesizedChoosesAnOption /\ RepairedChoosesAnOption]_vars

----------------------------------------------------------------------------
(* The itinerary synthesis of a trip without a calendar.                     *)

\* The itinerary synthesis starts on a trip whose calendar has no day.
CalendarNotDerived == pc = "run_itinerary_synthesis" /\ TripCalendar(planner) = <<>>

\* C40: when the trip calendar cannot be derived (a trip date is missing or
\* the start date lies after the end date), run_activity_pipeline skips the
\* itinerary planning, returns without raising and leaves activities.day_plan
\* as it was.
C40_NoCalendarSkipsQuietly ==
    [][CalendarNotDerived =>
          /\ pc' = "itinerary_done"
          /\ activities'.day_plan = activities.day_plan]_vars

====
